---- MODULE Spec2Model ----
(***************************************************************************)
(* Listing sniper: the stream manager's frame routing and clock sync       *)
(* (src/bybit/websocket.py), the IOC ladder engine (src/trading/sniper.py),*)
(* the position ledger (src/trading/position.py) and the wiring done by    *)
(* the orchestrator (src/bot.py).                                          *)
(*                                                                         *)
(* Numbers.  Python floats are modelled as exact fixed-point integers:     *)
(*   price     in units of 10^-price_precision (what round_price keeps),   *)
(*   quantity  in units of 1/QtyDen,                                       *)
(*   notional  in price units x quantity units,                            *)
(*   slippage  as a numerator over SlipDen.                                *)
(***************************************************************************)
EXTENDS Integers, Sequences, FiniteSets, TLC

VARIABLES
    callbacks,        \* WebSocketManager.callbacks: topic -> registered handler
    init_pc,          \* position of ListingSniperBot.initialize
    tickers,          \* WebSocketManager.tickers[symbol] for the sniped symbol
    positions,        \* PositionManager.positions[symbol] for that symbol
    completed_trades, \* PositionManager.completed_trades
    cfg,              \* config bundle + instrument descriptor of the snipe
    pc,               \* position of the thread inside Sniper.execute_snipe
    loc,              \* local variables of execute_snipe
    result,           \* the SnipeResult being built / returned
    order_fills,      \* Sniper.order_fills, the fill accumulator
    placed,           \* exchange side: orders received through place_order
    pushed,           \* exchange side: order-update frames pushed so far
    private_authenticated,  \* WebSocketManager.private_authenticated
    clock_offset_ms,        \* WebSocketManager.clock_offset_ms
    clock_offset_samples,   \* WebSocketManager.clock_offset_samples
    ping_send_times,  \* pings awaiting their pong, in the order sent
    ping_counter,     \* WebSocketManager.ping_counter
    sync,             \* position of the _initial_clock_sync thread
    prober,           \* private ping_loop: started flag and pings sent
    accepted,         \* every clock sample recorded so far, in arrival order
    running,          \* WebSocketManager.running
    mgr_pc,           \* position of the thread calling connect_all / close_all
    sockets,          \* per stream, every WebSocketApp created, oldest first;
                      \* public_ws / private_ws is the last one
    connected,        \* public_connected / private_connected
    subscriptions,    \* public_subscriptions / private_subscriptions
    reconnects,       \* per stream, the live _reconnect_* threads by position
    ping_loops,       \* per stream, the number of live ping_loop threads
    sub_call,         \* the subscribe_* call in progress
    last_frame,       \* the last inbound data or administrative frame and
                      \* the handlers it was passed to
    burst_samples,    \* the samples the pongs of the calibration's pings
                      \* ("sync_" req_ids) produced, in arrival order
    journal,          \* content of data/trades.json
    journal0,         \* content of data/trades.json when the process started
    exit_pc,          \* position of the delivery thread in _handle_exit
    exit_log,         \* one record per _handle_exit that found its position
    callback_log,     \* the trades on_exit_callback was called with
    on_exit_callback, \* PositionManager.on_exit_callback is set
    adds,             \* add_position calls made so far
    run_pc,           \* position of ListingSniperBot.run in its iteration
    stop,             \* the set_trailing_stop call of that iteration
    snipes,           \* the run loop's counters snipes_attempted and
                      \* snipes_successful
    delivery,         \* per stream: frames received and not yet handled,
                      \* frames handled, state of the delivery loop
    scanner           \* InstrumentScanner: known_symbols and what the scans
                      \* returned

vars == <<callbacks, init_pc, tickers, positions, completed_trades, cfg, pc,
          loc, result, order_fills, placed, pushed, private_authenticated,
          clock_offset_ms, clock_offset_samples, ping_send_times,
          ping_counter, sync, prober, accepted, running, mgr_pc, sockets,
          connected, subscriptions, reconnects, ping_loops, sub_call,
          last_frame, burst_samples, journal, journal0, exit_pc,
          exit_log, callback_log, on_exit_callback, adds, run_pc, stop,
          snipes, delivery, scanner>>
feedVars == <<delivery, scanner>>
outsideFeed == <<callbacks, init_pc, tickers, positions, completed_trades, cfg,
                 pc, loc, result, order_fills, placed, pushed,
                 private_authenticated, clock_offset_ms,
                 clock_offset_samples, ping_send_times, ping_counter, sync,
                 prober, accepted, running, mgr_pc, sockets, connected,
                 subscriptions, reconnects, ping_loops, sub_call, last_frame,
                 burst_samples, journal, journal0, exit_pc, exit_log,
                 callback_log, on_exit_callback, adds, run_pc, stop, snipes>>
bookVars == <<journal, journal0, exit_pc, exit_log, callback_log,
              on_exit_callback, adds, run_pc, stop, snipes, feedVars>>
streamVars == <<running, mgr_pc, sockets, connected, subscriptions,
                reconnects, ping_loops, sub_call, last_frame>>
clockVars  == <<private_authenticated, clock_offset_ms, clock_offset_samples,
                ping_send_times, ping_counter, sync, prober, accepted,
                burst_samples>>
exchVars   == <<placed, pushed>>

wiringVars == <<callbacks, init_pc>>
ledgerVars == <<positions, completed_trades>>
snipeVars  == <<pc, loc, result>>

-----------------------------------------------------------------------------
(* Bounds of the model *)

\* order cap used for config.ladder.max_orders
MaxOrders == 2
\* order-update frames carrying an execution that the exchange pushes
\* during one snipe
MaxPushes == 2
\* place_order calls that end in a transport error, per snipe
MaxRaises == 1

\* denominator of a quantity unit (one unit = 1/QtyDen)
QtyDen == 10
\* denominator of a slippage fraction
SlipDen == 10000

-----------------------------------------------------------------------------
(* Configurations: config.sniper / config.ladder and the instrument         *)

\* budget 100 USDT, one step of 0.05%, qtyStep 1, minOrderQty 1,
\* minNotionalValue default 5, price precision 4 (tickSize default 0.0001)
ScenarioA ==
    [name |-> "A", budget |-> 100 * 10000 * QtyDen, steps |-> <<5>>,
     repeat_per_step |-> 3, max_orders |-> MaxOrders,
     qty_step |-> 1 * QtyDen, min_qty |-> 1 * QtyDen,
     min_notional |-> 5 * 10000 * QtyDen, asks |-> {10000}]

\* small instrument: precision 0, qtyStep 0.1, minOrderQty 0.2, two steps
SmallStep ==
    [name |-> "S", budget |-> 20, steps |-> <<0, 2500>>,
     repeat_per_step |-> 1, max_orders |-> MaxOrders,
     qty_step |-> 1, min_qty |-> 2,
     min_notional |-> 10, asks |-> {0, 7}]

\* budget below the instrument's minimum notional
TinyBudget ==
    [name |-> "T", budget |-> 12, steps |-> <<0>>,
     repeat_per_step |-> 3, max_orders |-> MaxOrders,
     qty_step |-> 1, min_qty |-> 1,
     min_notional |-> 15, asks |-> {4}]

\* an instrument whose minimum order costs more than the whole budget
HeavyMin ==
    [name |-> "H", budget |-> 20, steps |-> <<0>>,
     repeat_per_step |-> 3, max_orders |-> MaxOrders,
     qty_step |-> 1, min_qty |-> 4,
     min_notional |-> 10, asks |-> {7}]

Configs == {ScenarioA, SmallStep, TinyBudget, HeavyMin}

-----------------------------------------------------------------------------
(* Values *)

Topics == {"order", "execution", "tickers"}
NoHandler == "none"

NoTicker == [present |-> FALSE, parsable |-> TRUE, ask |-> 0]
TickerOf(a) == [present |-> TRUE, parsable |-> TRUE, ask |-> a]
\* a ticker whose ask1Price is not a number (float() raises ValueError)
BadTicker == [present |-> TRUE, parsable |-> FALSE, ask |-> 0]

NoPosition ==
    [open |-> FALSE, side |-> "", qty |-> 0, entry_price |-> 0,
     trailing_set |-> FALSE]

NoLinkId == [prefix |-> "", n |-> 0, t |-> 0]
\* f"SNIPE_{symbol}_{orders_sent}_{int(time.time()*1000)}"; t stands for the
\* millisecond clock, which has advanced at every later placement
SnipeLinkId(n, t) == [prefix |-> "SNIPE_", n |-> n, t |-> t]

\* the elements of a sequence
Range(sq) == {sq[k] : k \in DOMAIN sq}

\* a / b as Python computes filled_value / filled_qty, kept exact:
\* the value is q + r/d
Quotient(a, b) == [q |-> a \div b, r |-> a % b, d |-> b]
ZeroQuotient == [q |-> 0, r |-> 0, d |-> 1]

\* mutant: the result starts out successful
EmptyResultSuccess ==
    [success |-> TRUE, filled_qty |-> 0, filled_value |-> 0,
     avg_entry |-> [q |-> 0, r |-> 0, d |-> 1], orders_sent |-> 0,
     fills |-> <<>>, error |-> ""]

\* line 95: SnipeResult(symbol=symbol, success=False)
EmptyResult ==
    [success |-> FALSE, filled_qty |-> 0, filled_value |-> 0,
     avg_entry |-> ZeroQuotient, orders_sent |-> 0, fills |-> <<>>,
     error |-> ""]

InitLoc ==
    [filled_value |-> 0, filled_qty |-> 0, orders_sent |-> 0,
     ladder_idx |-> 0, repeat_count |-> 0, slippage |-> 0,
     limit_price |-> 0, qty |-> 0, notional |-> 0,
     order_link_id |-> NoLinkId, attempts |-> 0, raises |-> 0]

-----------------------------------------------------------------------------
(* Sniper: pure helpers *)

\* Sniper.round_price applied to ask * (1 + slippage): f"{price:.{precision}f}"
\* keeps the nearest multiple of 10^-precision (ties to even)
round_price(num, den) ==
    LET q == num \div den
        r == num % den
    IN  IF 2 * r < den THEN q
        ELSE IF 2 * r > den THEN q + 1
        ELSE IF q % 2 = 0 THEN q ELSE q + 1

\* mutant: the quantity is rounded up to the next whole unit or step
round_qty_up(num, den, step) ==
    IF step >= QtyDen
    THEN ((num + den * QtyDen - 1) \div (den * QtyDen)) * QtyDen
    ELSE ((num + den * step - 1) \div (den * step)) * step

\* Sniper.round_qty applied to remaining / limit_price (num / den, quantity
\* units): a step >= 1 floors to whole units whatever the step, a smaller
\* step floors to a multiple of the step
round_qty(num, den, step) ==
    IF step >= QtyDen
    THEN (num \div (den * QtyDen)) * QtyDen
    ELSE (num \div (den * step)) * step

\* ladder_steps[ladder_idx] if ladder_idx < len(ladder_steps) else ladder_steps[-1]
\* (ladder_idx is 0-based in the source)
CurrentSlippage(steps, ladder_idx) ==
    IF ladder_idx < Len(steps) THEN steps[ladder_idx + 1] ELSE steps[Len(steps)]

\* the fills of the accumulator the rescan counts for one correlation id
CountedFills(fills, id) ==
    SelectSeq(fills, LAMBDA f :
        f.order_link_id = id /\ f.qty > 0 /\ f.avg_price > 0)

RECURSIVE SumQty(_)
SumQty(fs) == IF fs = <<>> THEN 0 ELSE Head(fs).qty + SumQty(Tail(fs))

RECURSIVE SumValue(_)
SumValue(fs) ==
    IF fs = <<>> THEN 0
    ELSE Head(fs).qty * Head(fs).avg_price + SumValue(Tail(fs))

-----------------------------------------------------------------------------
(* Sniper.execute_snipe, one action per step of the calling thread *)

\* lines 95-123: fresh result, subscribe to the ticker, clear the accumulator,
\* zero the counters
StartSnipe ==
    /\ pc = "idle"
    /\ init_pc \in {"ready", "standalone"}
    /\ result' = EmptyResult
    /\ order_fills' = <<>>
    /\ loc' = InitLoc
    /\ pc' = "loop"
    /\ UNCHANGED <<bookVars, streamVars, wiringVars, ledgerVars, tickers, cfg,
                   clockVars, exchVars>>

\* mutant: the rounded quantity is used as it is
PromoteQtyNone(rounded, min_qty) == rounded

\* lines 161-162: a quantity below the instrument minimum is raised to it
PromoteQty(rounded, min_qty) == IF rounded < min_qty THEN min_qty ELSE rounded

\* line 165: the order is not placed and the ladder stops
BelowMinNotional(notional, min_notional) == notional < min_notional

\* mutant: only accepted orders are counted
CountsOnlyAccepted(resp) == resp = "ok"

\* line 183: orders_sent += 1 runs when place_order returned, with any
\* retCode, and is skipped when it raised
CountsAgainstCap(resp) == resp # "raise"

\* mutant: the operands of the division are swapped
AvgEntrySwapped(filled_value, filled_qty) == Quotient(filled_qty, filled_value)

\* line 222: result.avg_entry = filled_value / filled_qty
AvgEntry(filled_value, filled_qty) == Quotient(filled_value, filled_qty)

\* mutant: the order cap is compared with <=
LoopConditionOffByOne ==
    loc.filled_value < cfg.budget /\ loc.orders_sent <= cfg.max_orders

\* line 125: while filled_value < budget and orders_sent < max_orders
LoopCondition ==
    loc.filled_value < cfg.budget /\ loc.orders_sent < cfg.max_orders

LoopHead ==
    /\ pc = "loop"
    /\ pc' = IF LoopCondition THEN "ticker" ELSE "finish"
    /\ UNCHANGED <<bookVars, streamVars, wiringVars, ledgerVars, tickers, cfg,
                   clockVars, loc, result,
                   order_fills, exchVars>>

\* what client.get_tickers can answer: a transport error (raised), a
\* non-zero retCode, an empty list, or a list whose head is a ticker
RestAnswers ==
    {[kind |-> k, ticker |-> NoTicker] : k \in {"raise", "error", "empty"}}
    \cup {[kind |-> "ok", ticker |-> TickerOf(a)] : a \in cfg.asks}

\* lines 230-233: the outer except
SnipeError ==
    /\ result' = [result EXCEPT !.error = "exception"]
    /\ pc' = "done"

\* lines 142-167 for a ticker that is present: parse the ask, price the
\* order, size it for the remaining budget, check the minimums
PriceOrder(ticker) ==
    IF ~ticker.parsable
    THEN SnipeError /\ UNCHANGED loc
    ELSE IF ticker.ask <= 0
    THEN pc' = "loop" /\ UNCHANGED <<loc, result>>
    ELSE
      LET slippage  == CurrentSlippage(cfg.steps, loc.ladder_idx)
          limit     == round_price(ticker.ask * (SlipDen + slippage), SlipDen)
          remaining == cfg.budget - loc.filled_value
      IN  IF limit = 0
          THEN SnipeError /\ UNCHANGED loc
          ELSE
            LET rounded  == round_qty(remaining, limit, cfg.qty_step)
                qty      == PromoteQty(rounded, cfg.min_qty)
                notional == qty * limit
            IN  /\ loc' = [loc EXCEPT !.slippage = slippage,
                                      !.limit_price = limit,
                                      !.qty = qty,
                                      !.notional = notional]
                /\ pc' = IF BelowMinNotional(notional, cfg.min_notional)
                         THEN "finish" ELSE "place"
                /\ UNCHANGED result

\* lines 127-167: the socket's snapshot, else the REST fallback; no ticker
\* at all sleeps and starts the iteration over
ReadTicker ==
    /\ pc = "ticker"
    /\ IF tickers.present
       THEN PriceOrder(tickers)
       ELSE \E r \in RestAnswers :
              IF r.kind = "raise" THEN SnipeError /\ UNCHANGED loc
              ELSE IF r.kind = "ok" THEN PriceOrder(r.ticker)
              ELSE pc' = "loop" /\ UNCHANGED <<loc, result>>
    /\ UNCHANGED <<bookVars, streamVars, wiringVars, ledgerVars, tickers, cfg,
                   clockVars, order_fills, exchVars>>

\* what client.place_order can do: retCode 0, another retCode, or raise (a
\* transport error; the exchange may or may not have taken the order)
PlaceAnswers == {"ok", "rejected", "raise"}

\* lines 169-191: a fresh correlation id, then place_order; orders_sent is
\* incremented once place_order has returned, whatever its retCode
PlaceOrder ==
    /\ pc = "place"
    /\ \E resp \in PlaceAnswers :
         LET id    == SnipeLinkId(loc.orders_sent, loc.attempts)
             raise == resp = "raise"
         IN  /\ raise => loc.raises < MaxRaises
             /\ loc' = [loc EXCEPT
                          !.order_link_id = id,
                          !.attempts = @ + 1,
                          !.raises = IF raise THEN @ + 1 ELSE @,
                          !.orders_sent =
                              IF CountsAgainstCap(resp) THEN @ + 1 ELSE @]
             /\ placed' = Append(placed,
                    [order_link_id |-> id, qty |-> loc.qty,
                     price |-> loc.limit_price, notional |-> loc.notional,
                     remaining |-> cfg.budget - loc.filled_value,
                     resp |-> resp, cum |-> 0])
    /\ pc' = "wait"
    /\ UNCHANGED <<bookVars, streamVars, wiringVars, ledgerVars, tickers, cfg,
                   clockVars, result, order_fills,
                   pushed>>

\* lines 193-214: after the pacing sleep, rescan the whole accumulator for
\* this order's correlation id, then advance the ladder
CheckFills ==
    /\ pc = "wait"
    /\ LET mine == CountedFills(order_fills, loc.order_link_id)
           rc   == loc.repeat_count + 1
           up   == rc >= cfg.repeat_per_step
       IN  /\ loc' = [loc EXCEPT
                        !.filled_qty = @ + SumQty(mine),
                        !.filled_value = @ + SumValue(mine),
                        !.repeat_count = IF up THEN 0 ELSE rc,
                        !.ladder_idx = IF up THEN @ + 1 ELSE @]
           /\ result' = [result EXCEPT !.fills = @ \o mine]
    /\ pc' = "loop"
    /\ UNCHANGED <<bookVars, streamVars, wiringVars, ledgerVars, tickers, cfg,
                   clockVars, order_fills, exchVars>>

\* lines 216-228: copy the counters into the result and return it
Finish ==
    /\ pc = "finish"
    /\ result' = [result EXCEPT
                    !.orders_sent = loc.orders_sent,
                    !.filled_qty = loc.filled_qty,
                    !.filled_value = loc.filled_value,
                    !.avg_entry = IF loc.filled_qty > 0
                                  THEN AvgEntry(loc.filled_value, loc.filled_qty)
                                  ELSE @,
                    !.success = IF loc.filled_qty > 0 THEN TRUE ELSE @]
    /\ pc' = "done"
    /\ UNCHANGED <<bookVars, streamVars, wiringVars, ledgerVars, tickers, cfg,
                   clockVars, loc, order_fills,
                   exchVars>>

-----------------------------------------------------------------------------
(* Handlers registered on the stream manager *)

SniperHandler == "Sniper._on_order_update"
LedgerOrderHandler == "PositionManager._on_order"
LedgerExecHandler == "PositionManager._on_execution"
\* a handler registered for the tickers topic
TickerHandler == "on_ticker"

\* WebSocketManager.on: one handler per topic, the last registration wins
on(cb, topic, handler) == [cb EXCEPT ![topic] = handler]

\* Sniper._on_order_update for a frame carrying one order: the accumulator
\* after the frame
Sniper_on_order_update(fills, order) ==
    IF order.orderLinkId.prefix = "SNIPE_" /\ order.cumExecQty > 0
    THEN Append(fills, [order_link_id |-> order.orderLinkId,
                        qty |-> order.cumExecQty,
                        avg_price |-> order.avgPrice,
                        status |-> order.orderStatus])
    ELSE fills

\* taker fee 0.055 percent = TakerNum / TakerDen of the notional
TakerNum == 55
TakerDen == 100000

\* mutant: the fee is charged on the exit notional only
TradeOfExitFeeOnly(pos, qty, exit_price) ==
    LET exit_value  == qty * exit_price
        entry_value == qty * pos.entry_price
        gross_pnl   == exit_value - entry_value
        fees        == exit_value * TakerNum
        net_pnl     == gross_pnl * TakerDen - fees
    IN  [side |-> pos.side, qty |-> qty, entry_price |-> pos.entry_price,
         exit_price |-> exit_price, entry_value |-> entry_value,
         exit_value |-> exit_value, gross_pnl |-> gross_pnl, fees |-> fees,
         net_pnl |-> net_pnl,
         roi_pct |-> IF entry_value > 0
                     THEN Quotient(net_pnl, entry_value * (TakerDen \div 100))
                     ELSE ZeroQuotient]

\* PositionManager._handle_exit, lines 163-195: the TradeResult of closing
\* pos with an exit of qty at exit_price.  fees and net_pnl are numerators
\* over TakerDen; roi_pct is net_pnl / entry_value * 100 as a quotient
TradeOf(pos, qty, exit_price) ==
    LET exit_value  == qty * exit_price
        entry_value == qty * pos.entry_price
        gross_pnl   == exit_value - entry_value
        fees        == (entry_value + exit_value) * TakerNum
        net_pnl     == gross_pnl * TakerDen - fees
    IN  [side |-> pos.side, qty |-> qty, entry_price |-> pos.entry_price,
         exit_price |-> exit_price, entry_value |-> entry_value,
         exit_value |-> exit_value, gross_pnl |-> gross_pnl, fees |-> fees,
         net_pnl |-> net_pnl,
         roi_pct |-> IF entry_value > 0
                     THEN Quotient(net_pnl, entry_value * (TakerDen \div 100))
                     ELSE ZeroQuotient]

\* data/trades.json.  state: "absent" (no file), "list" (a JSON list) or
\* "corrupt" (not parsable).  An entry is the dict of one trade; keys is
\* "TradeResult" when its keys are exactly the fields of TradeResult
NoJournal == [state |-> "absent", entries |-> <<>>]

\* _save_trades, lines 100-115: the dict written for one trade
JournalEntry(t) == [trade |-> t, keys |-> "TradeResult"]

\* _save_trades, lines 99-117: the list written for completed_trades
Serialize(trades) == [k \in 1..Len(trades) |-> JournalEntry(trades[k])]

\* _save_trades, lines 118-121: the file after one call.  "ok": written;
\* "unopened": open() raised; "truncated": open() emptied the file and
\* json.dump raised before the list was complete.  The exception is logged.
WriteJournal(j, trades, outcome) ==
    CASE outcome = "ok"        -> [state |-> "list", entries |-> Serialize(trades)]
      [] outcome = "unopened"  -> j
      [] outcome = "truncated" -> [state |-> "corrupt", entries |-> <<>>]

\* _load_trades, lines 91-92: TradeResult(**t) for each entry in turn; the
\* first entry whose keys are not the fields of TradeResult raises
RECURSIVE LoadedPrefix(_)
LoadedPrefix(entries) ==
    IF entries = <<>> THEN <<>>
    ELSE IF Head(entries).keys = "TradeResult"
         THEN <<Head(entries).trade>> \o LoadedPrefix(Tail(entries))
         ELSE <<>>

\* _load_trades, lines 84-94: completed_trades after the load; a missing
\* file loads nothing, an exception is logged and keeps what was appended
LoadTrades(j) == IF j.state = "list" THEN LoadedPrefix(j.entries) ELSE <<>>

\* PositionManager.add_position, lines 213-226: the Position stored for the
\* symbol, whatever was stored before
add_position(side, qty, entry_price) ==
    [open |-> TRUE, side |-> side, qty |-> qty, entry_price |-> entry_price,
     trailing_set |-> FALSE]

\* PositionManager._on_order for a frame carrying one order: a filled
\* trailing stop on a tracked symbol is an exit
PositionManager_on_order(order) ==
    IF /\ order.orderStatus = "Filled"
       /\ order.stopOrderType = "TrailingStop"
       /\ positions.open
       /\ order.avgPrice > 0
       /\ order.cumExecQty > 0
    THEN /\ completed_trades' =
              Append(completed_trades,
                     TradeOf(positions, order.cumExecQty, order.avgPrice))
         /\ positions' = NoPosition
    ELSE UNCHANGED ledgerVars

\* WebSocketManager._on_private_message, lines 248-254: the handler a data
\* frame of this topic is passed to (at most one)
PrivateRoute(cb, topic) ==
    IF topic = "order" /\ cb["order"] # NoHandler THEN cb["order"]
    ELSE IF topic = "execution" /\ cb["execution"] # NoHandler
    THEN cb["execution"]
    ELSE NoHandler

-----------------------------------------------------------------------------
(* The exchange: order updates pushed on the private stream, tickers on the *)
(* public stream                                                            *)

\* cumulative executed quantity an update for order o may carry
ExecQtys(o) == {c \in {0, o.qty \div 2, o.qty} : c >= o.cum}

\* average price of the executed part: the order's limit price
ExecPrices(o) == {o.price}

OrderStatusOf(o, c) ==
    IF c = o.qty THEN "Filled"
    ELSE IF c > 0 THEN "PartiallyFilled" ELSE "Cancelled"

OrderUpdate(o, c, p) ==
    [orderLinkId |-> o.order_link_id, cumExecQty |-> c,
     avgPrice |-> IF c > 0 THEN p ELSE 0,
     orderStatus |-> OrderStatusOf(o, c), stopOrderType |-> ""]

\* WebSocketManager._on_private_message for one order-update frame of the
\* snipe's i-th order, and the handler it is routed to.  The frames of a
\* snipe arrive while execute_snipe runs; the accumulator is read only by
\* CheckFills, so a frame that arrives anywhere between two rescans is taken
\* during the pacing wait that precedes the second one, and a frame that
\* arrives after the last rescan is taken before the result is built.
OnOrderFrame ==
    \E i \in DOMAIN placed :
      /\ pc \in {"wait", "finish"}
      /\ placed[i].resp \in {"ok", "raise"}
      /\ \E c \in ExecQtys(placed[i]), p \in ExecPrices(placed[i]) :
           LET order   == OrderUpdate(placed[i], c, p)
               handler == PrivateRoute(callbacks, "order")
           IN  /\ c > 0 => pushed < MaxPushes
               /\ placed' = [placed EXCEPT ![i].cum = c]
               /\ pushed' = IF c > 0 THEN pushed + 1 ELSE pushed
               /\ order_fills' =
                    IF handler = SniperHandler
                    THEN Sniper_on_order_update(order_fills, order)
                    ELSE order_fills
               /\ IF handler = LedgerOrderHandler
                  THEN PositionManager_on_order(order)
                  ELSE UNCHANGED ledgerVars
      /\ UNCHANGED <<bookVars, streamVars, wiringVars, tickers, cfg, clockVars,
                     snipeVars>>

\* WebSocketManager._on_public_message, lines 183-189: the latest ticker
\* frame replaces the snapshot.  The snapshot is last-writer-wins and read
\* only by ReadTicker, so the frames that arrive between two reads are taken
\* as the last of them arriving right before the read.
OnTickerFrame ==
    /\ pc = "ticker"
    /\ \E t \in {TickerOf(a) : a \in cfg.asks} \cup {BadTicker} :
         /\ t # tickers
         /\ tickers' = t
    /\ UNCHANGED <<bookVars, streamVars, wiringVars, ledgerVars, cfg,
                   clockVars, snipeVars, order_fills, exchVars>>

-----------------------------------------------------------------------------
(* Clock sync over the private stream's ping / pong *)

\* steady pings the private ping_loop sends
MaxPings == 2

\* len(self.clock_offset_samples) > 10: the size of the sample window
WindowSize == 10
\* for i in range(10): the pings of the initial calibration
BurstPings == 10
\* self.clock_offset_samples[2:]: the samples the calibration skips
WarmupSamples == 2

\* int(time.time() * 1000) when the n-th ping is sent
LocalMs(n) == 1000 + 50 * n
\* round trips of a pong, and server timestamp minus local receive time
Rtts == {3}
ServerLeads == {-3, 4}

\* sorted(samples): insertion sort
RECURSIVE Insert(_, _)
Insert(x, sq) ==
    IF sq = <<>> THEN <<x>>
    ELSE IF x <= Head(sq) THEN <<x>> \o sq
    ELSE <<Head(sq)>> \o Insert(x, Tail(sq))

RECURSIVE sorted(_)
sorted(sq) == IF sq = <<>> THEN <<>> ELSE Insert(Head(sq), sorted(Tail(sq)))

\* sorted_samples[len(sorted_samples) // 2] (0-based in the source)
MiddleOf(samples) == sorted(samples)[(Len(samples) \div 2) + 1]

\* lines 231-233: the offset sample of one pong
OffsetSample(server_ts, send_time_ms, local_recv_ms) ==
    LET rtt     == local_recv_ms - send_time_ms
        one_way == rtt \div 2
    IN  (server_ts + one_way) - local_recv_ms

\* mutant: beyond the window the newest sample is dropped
PushSampleDropNewest(samples, offset) ==
    IF Len(samples) >= WindowSize THEN samples ELSE Append(samples, offset)

\* lines 236-238: append, then drop the oldest beyond the window
PushSample(samples, offset) ==
    LET appended == Append(samples, offset)
    IN  IF Len(appended) > WindowSize THEN Tail(appended) ELSE appended

\* _on_private_message, lines 204-217, for an auth acknowledgment that
\* reports success: the calibration thread and the ping thread are started
OnAuthSuccess ==
    /\ ~private_authenticated
    /\ private_authenticated' = TRUE
    /\ sync' = [state |-> "pinging", i |-> 0]
    /\ prober' = [prober EXCEPT !.started = TRUE]
    /\ UNCHANGED <<bookVars, streamVars, wiringVars, ledgerVars, tickers, cfg,
                   snipeVars, order_fills,
                   exchVars, clock_offset_ms, clock_offset_samples,
                   ping_send_times, ping_counter, accepted,
                   burst_samples>>

\* _initial_clock_sync, lines 263-271: one ping of the burst
SyncPing ==
    /\ sync.state = "pinging"
    /\ ping_counter' = ping_counter + 1
    /\ ping_send_times' =
         Append(ping_send_times,
                [req_id |-> [kind |-> "sync", n |-> ping_counter + 1],
                 send_time_ms |-> LocalMs(ping_counter + 1)])
    /\ sync' = IF sync.i + 1 = BurstPings
               THEN [state |-> "sleeping", i |-> sync.i + 1]
               ELSE [sync EXCEPT !.i = @ + 1]
    /\ UNCHANGED <<bookVars, streamVars, wiringVars, ledgerVars, tickers, cfg,
                   snipeVars, order_fills,
                   exchVars, private_authenticated, clock_offset_ms,
                   clock_offset_samples, prober, accepted,
                   burst_samples>>

\* _initial_clock_sync, lines 273-280: after the last sleep, the estimate
SyncEstimate ==
    /\ sync.state = "sleeping"
    /\ clock_offset_ms' =
         IF Len(clock_offset_samples) > WarmupSamples
         THEN MiddleOf(SubSeq(clock_offset_samples, WarmupSamples + 1,
                              Len(clock_offset_samples)))
         ELSE clock_offset_ms
    /\ sync' = [sync EXCEPT !.state = "done"]
    /\ UNCHANGED <<bookVars, streamVars, wiringVars, ledgerVars, tickers, cfg,
                   snipeVars, order_fills,
                   exchVars, private_authenticated, clock_offset_samples,
                   ping_send_times, ping_counter, prober, accepted,
                   burst_samples>>

\* _start_ping_thread('private'), lines 286-300: one round of ping_loop
SteadyPing ==
    /\ prober.started
    /\ prober.sent < MaxPings
    /\ ping_counter' = ping_counter + 1
    /\ ping_send_times' =
         Append(ping_send_times,
                [req_id |-> [kind |-> "ping", n |-> ping_counter + 1],
                 send_time_ms |-> LocalMs(ping_counter + 1)])
    /\ prober' = [prober EXCEPT !.sent = @ + 1]
    /\ UNCHANGED <<bookVars, streamVars, wiringVars, ledgerVars, tickers, cfg,
                   snipeVars, order_fills,
                   exchVars, private_authenticated, clock_offset_ms,
                   clock_offset_samples, sync, accepted,
                   burst_samples>>

\* _on_private_message, lines 220-243: the pong of the oldest ping in
\* flight (the socket keeps the order); a pong without args records nothing.
\* history names what the step records besides the window: "all" every
\* accepted sample, "burst" the samples of the calibration's pings
PongStep(history) ==
    /\ ping_send_times # <<>>
    /\ LET ping == Head(ping_send_times)
       IN  \E has_args \in BOOLEAN, rtt \in Rtts, lead \in ServerLeads :
             LET local_recv_ms == ping.send_time_ms + rtt
                 server_ts     == local_recv_ms + lead
                 offset        == OffsetSample(server_ts, ping.send_time_ms,
                                               local_recv_ms)
                 samples       == PushSample(clock_offset_samples, offset)
             IN  /\ ~has_args => lead = -3
                 /\ IF has_args /\ ping.send_time_ms > 0
                    THEN /\ clock_offset_samples' = samples
                         /\ clock_offset_ms' = MiddleOf(samples)
                         /\ accepted' = IF history = "all"
                                        THEN Append(accepted, offset)
                                        ELSE accepted
                         /\ burst_samples' =
                              IF history = "burst" /\ ping.req_id.kind = "sync"
                              THEN Append(burst_samples, offset)
                              ELSE burst_samples
                    ELSE UNCHANGED <<clock_offset_samples, clock_offset_ms,
                                     accepted, burst_samples>>
    /\ ping_send_times' = Tail(ping_send_times)
    /\ UNCHANGED <<bookVars, streamVars, wiringVars, ledgerVars, tickers, cfg,
                   snipeVars, order_fills, exchVars, private_authenticated,
                   ping_counter, sync, prober>>

OnPong == PongStep("all")

OnBurstPong == PongStep("burst")

-----------------------------------------------------------------------------
(* ListingSniperBot.initialize, lines 97-102 *)

\* self.sniper = Sniper(client, ws, config): Sniper.__init__ registers its
\* order handler
BotInitSniper ==
    /\ init_pc = "connected"
    /\ callbacks' = on(callbacks, "order", SniperHandler)
    /\ init_pc' = "sniper"
    /\ UNCHANGED <<bookVars, streamVars, ledgerVars, tickers, cfg, clockVars,
                   snipeVars, order_fills, exchVars>>

\* self.position_mgr = PositionManager(client, ws, config): its __init__
\* loads the journal and registers an execution handler and an order
\* handler; then line 102 sets the exit callback
BotInitPositionManager ==
    /\ init_pc = "sniper"
    /\ positions' = NoPosition
    /\ completed_trades' = LoadTrades(journal)
    /\ callbacks' = on(on(callbacks, "execution", LedgerExecHandler),
                       "order", LedgerOrderHandler)
    /\ on_exit_callback' = TRUE
    /\ init_pc' = "ready"
    /\ UNCHANGED <<streamVars, tickers, cfg, clockVars, snipeVars,
                   order_fills, exchVars, journal, journal0, exit_pc,
                   exit_log, callback_log, adds, run_pc, stop,
                   snipes, feedVars>>

-----------------------------------------------------------------------------
(* The stream manager's socket lifecycle (src/bybit/websocket.py).  In this *)
(* part a ping is kept as a frame on the wire only; its clock bookkeeping   *)
(* (ping_counter, ping_send_times, the samples) is the part above.          *)

Streams == {"public", "private"}

\* sockets created after the two of connect_all, by reconnects and repeated
\* connects, over both streams
MaxReconnects == 1
\* subscribe_public / subscribe_private calls
MaxSubscribes == 2

\* a WebSocketApp as connect_* creates it.  state is the position of its
\* delivery thread (run_forever): "connecting" before on_open, "opening" /
\* "flagged" inside the handler that makes the stream ready, "closed" after
\* on_close.  closing: close() was called on it.  authed: its authentication
\* success acknowledgment has been received.  subs: the subscribe frames sent
\* on it.  early_sub / early_probe: a subscribe / ping frame was sent on it
\* (private stream) before that acknowledgment.  calibrating: an
\* _initial_clock_sync thread was started for it.
NewSocket ==
    [state |-> "connecting", closing |-> FALSE, authed |-> FALSE,
     subs |-> <<>>, early_sub |-> FALSE, early_probe |-> FALSE,
     calibrating |-> FALSE]

\* ws.sock.connected / a send on the socket succeeds
Up(sock) ==
    /\ sock.state \in {"opening", "authenticating", "rejected", "flagged",
                       "ready"}
    /\ ~sock.closing

\* the delivery thread of the socket is between two callbacks
Delivering(sock) == sock.state \in {"authenticating", "rejected", "ready"}

\* self.public_ws / self.private_ws: index of the current socket, 0 for None
Current(s) == Len(sockets[s])

\* sockets of stream s created or about to be created after its first one
Extra(s) ==
    (IF Len(sockets[s]) > 1 THEN Len(sockets[s]) - 1 ELSE 0)
      + reconnects[s].sleeping + reconnects[s].checked

NoFrame ==
    [stream |-> "", op |-> "", topic |-> "", handlers |-> <<>>,
     authenticated |-> FALSE]

\* n: subscribe calls made so far
NoCall == [pc |-> "idle", stream |-> "", topics |-> <<>>, n |-> 0]

\* the topics of the n-th subscribe call: bot.py line 91 subscribes the
\* private stream to order and execution, sniper.py line 113 the public
\* stream to the ticker of the sniped symbol
TopicsOfCall(s, n) ==
    IF s = "private"
    THEN (IF n = 1 THEN <<"order", "execution">> ELSE <<"wallet">>)
    ELSE (IF n = 1 THEN <<"tickers.A">> ELSE <<"tickers.B">>)

\* subscribe calls made so far on stream s
CallsOn(s) ==
    IF s = "private" /\ subscriptions[s] # <<>>
    THEN Len(subscriptions[s]) - 1
    ELSE Len(subscriptions[s])

\* WebSocketManager.__init__, lines 38-62
StreamNew ==
    /\ running = FALSE
    /\ mgr_pc = "new"
    /\ sockets = [s \in Streams |-> <<>>]
    /\ connected = [s \in Streams |-> FALSE]
    /\ subscriptions = [s \in Streams |-> <<>>]
    /\ reconnects = [s \in Streams |-> [sleeping |-> 0, checked |-> 0]]
    /\ ping_loops = [s \in Streams |-> 0]
    /\ sub_call = NoCall
    /\ last_frame = NoFrame

\* what the stream part leaves alone
engineVars == <<wiringVars, ledgerVars, cfg, snipeVars, order_fills, exchVars,
                clock_offset_ms, clock_offset_samples, ping_send_times,
                ping_counter, sync, prober, accepted, burst_samples, bookVars>>

\* connect_public / connect_private, lines 106-118 and 143-155: a new
\* WebSocketApp replaces the current one and gets its own delivery thread
connect(socks, s) == [socks EXCEPT ![s] = Append(@, NewSocket)]

\* connect_all, lines 77-78
ConnectAllPrivate ==
    /\ mgr_pc = "new"
    /\ running' = TRUE
    /\ sockets' = connect(sockets, "private")
    /\ mgr_pc' = "half"
    /\ UNCHANGED <<engineVars, tickers, private_authenticated, connected,
                   subscriptions, reconnects, ping_loops, sub_call, last_frame>>

\* connect_all, lines 79-80
ConnectAllPublic ==
    /\ mgr_pc = "half"
    /\ sockets' = connect(sockets, "public")
    /\ mgr_pc' = "running"
    /\ UNCHANGED <<engineVars, tickers, private_authenticated, running,
                   connected, subscriptions, reconnects, ping_loops, sub_call,
                   last_frame>>

\* a call of connect_public / connect_private on a stream that already has
\* a socket connecting or connected
ConnectAgain ==
    \E s \in Streams :
      /\ mgr_pc = "running"
      /\ Current(s) > 0
      /\ sockets[s][Current(s)].state # "closed"
      /\ Extra("public") + Extra("private") < MaxReconnects
      /\ sockets' = connect(sockets, s)
      /\ UNCHANGED <<engineVars, tickers, private_authenticated, running,
                     mgr_pc, connected, subscriptions, reconnects, ping_loops,
                     sub_call, last_frame>>

\* the subscribe frame _subscribe_internal sends for a topic list
SubscribeFrameFirst(topics) == <<Head(topics)>>

SubscribeFrame(topics) == topics

\* ws.send of a subscribe frame on socket i of stream s; on a socket that is
\* not connected the send raises and nothing goes out
SendSubscribe(socks, s, i, topics) ==
    IF Up(socks[s][i])
    THEN [socks EXCEPT ![s][i].subs = Append(@, SubscribeFrame(topics)),
                       ![s][i].early_sub =
                           @ \/ (s = "private" /\ ~socks[s][i].authed)]
    ELSE socks

\* subscribe_public line 316 / subscribe_private line 322: the topics are
\* stored first
SubscribeExtend ==
    \E s \in Streams :
      /\ sub_call.pc = "idle"
      /\ sub_call.n < MaxSubscribes
      /\ CallsOn(s) < 2
      /\ mgr_pc # "closed"
      /\ LET topics == TopicsOfCall(s, CallsOn(s) + 1)
         IN  /\ subscriptions' = [subscriptions EXCEPT ![s] = @ \o topics]
             /\ sub_call' = [pc |-> "extended", stream |-> s,
                             topics |-> topics, n |-> sub_call.n + 1]
      /\ UNCHANGED <<engineVars, tickers, private_authenticated, running,
                     mgr_pc, sockets, connected, reconnects, ping_loops,
                     last_frame>>

\* public_connected / private_authenticated, as lines 317 and 323 test it
Ready(s) == IF s = "private" THEN private_authenticated ELSE connected[s]

\* subscribe_public lines 317-318 / subscribe_private lines 323-324: they
\* are sent at once on the current socket if the stream is ready
SubscribeSend ==
    /\ sub_call.pc = "extended"
    /\ LET s == sub_call.stream
       IN  sockets' = IF Ready(s) /\ Current(s) > 0
                      THEN SendSubscribe(sockets, s, Current(s),
                                         sub_call.topics)
                      ELSE sockets
    /\ sub_call' = [sub_call EXCEPT !.pc = "idle"]
    /\ UNCHANGED <<engineVars, tickers, private_authenticated, running,
                   mgr_pc, connected, subscriptions, reconnects, ping_loops,
                   last_frame>>

\* connect_public.on_open, lines 88-89
OnOpenPublic ==
    \E i \in DOMAIN sockets["public"] :
      /\ sockets["public"][i].state = "connecting"
      /\ ~sockets["public"][i].closing
      /\ connected' = [connected EXCEPT !["public"] = TRUE]
      /\ sockets' = [sockets EXCEPT !["public"][i].state = "opening"]
      /\ UNCHANGED <<engineVars, tickers, private_authenticated, running,
                     mgr_pc, subscriptions, reconnects, ping_loops, sub_call,
                     last_frame>>

\* the replay of a non-empty topic list raises: the rest of the handler is
\* skipped
ReplayRaises(s, i) == subscriptions[s] # <<>> /\ ~Up(sockets[s][i])

\* connect_public.on_open, lines 90-92: the stored topics are replayed and
\* a ping thread is started
OnOpenPublicFlush ==
    \E i \in DOMAIN sockets["public"] :
      /\ sockets["public"][i].state = "opening"
      /\ sockets' =
           [(IF subscriptions["public"] # <<>>
             THEN SendSubscribe(sockets, "public", i, subscriptions["public"])
             ELSE sockets) EXCEPT !["public"][i].state = "ready"]
      /\ ping_loops' = IF ReplayRaises("public", i) THEN ping_loops
                       ELSE [ping_loops EXCEPT !["public"] = @ + 1]
      /\ UNCHANGED <<engineVars, tickers, private_authenticated, running,
                     mgr_pc, connected, subscriptions, reconnects, sub_call,
                     last_frame>>

\* connect_private.on_open, lines 126-128: the auth frame is sent
OnOpenPrivate ==
    \E i \in DOMAIN sockets["private"] :
      /\ sockets["private"][i].state = "connecting"
      /\ ~sockets["private"][i].closing
      /\ connected' = [connected EXCEPT !["private"] = TRUE]
      /\ sockets' = [sockets EXCEPT !["private"][i].state = "authenticating"]
      /\ UNCHANGED <<engineVars, tickers, private_authenticated, running,
                     mgr_pc, subscriptions, reconnects, ping_loops, sub_call,
                     last_frame>>

\* _on_private_message, lines 204-207 and 215-217: the acknowledgment of the
\* auth frame; a failure is logged
OnAuthAck ==
    \E i \in DOMAIN sockets["private"], success \in BOOLEAN :
      /\ sockets["private"][i].state = "authenticating"
      /\ IF success
         THEN /\ private_authenticated' = TRUE
              /\ sockets' = [sockets EXCEPT !["private"][i].state = "flagged",
                                            !["private"][i].authed = TRUE]
         ELSE /\ sockets' = [sockets EXCEPT !["private"][i].state = "rejected"]
              /\ UNCHANGED private_authenticated
      /\ last_frame' = [stream |-> "private", op |-> "auth", topic |-> "",
                        handlers |-> <<>>,
                        authenticated |-> private_authenticated]
      /\ UNCHANGED <<engineVars, tickers, running, mgr_pc, connected,
                     subscriptions, reconnects, ping_loops, sub_call>>

\* _on_private_message, lines 209-214, after a success: the stored topics
\* are replayed, the calibration thread and a ping thread are started
OnAuthFlush ==
    \E i \in DOMAIN sockets["private"] :
      /\ sockets["private"][i].state = "flagged"
      /\ sockets' =
           [(IF subscriptions["private"] # <<>>
             THEN SendSubscribe(sockets, "private", i,
                                subscriptions["private"])
             ELSE sockets) EXCEPT !["private"][i].state = "ready",
                                  !["private"][i].calibrating =
                                      ~ReplayRaises("private", i)]
      /\ ping_loops' = IF ReplayRaises("private", i) THEN ping_loops
                       ELSE [ping_loops EXCEPT !["private"] = @ + 1]
      /\ UNCHANGED <<engineVars, tickers, private_authenticated, running,
                     mgr_pc, connected, subscriptions, reconnects, sub_call,
                     last_frame>>

\* mutant: on_close starts no reconnect thread
SpawnNothing(rc, s) == rc

\* lines 101 and 138: a _reconnect_* thread is started
SpawnReconnect(rc, s) == [rc EXCEPT ![s].sleeping = @ + 1]

\* connect_*.on_close, lines 97-101 and 133-138, for a socket of stream s.
\* run_forever ends with on_close whether the socket was open or the attempt
\* failed.  A close that nobody asked for happens only while the reconnect
\* it causes fits in MaxReconnects.
OnCloseOf(s) ==
    \E i \in DOMAIN sockets[s] :
      /\ sockets[s][i].state = "connecting" \/ Delivering(sockets[s][i])
      /\ \/ sockets[s][i].closing
         \/ ~running
         \/ Extra("public") + Extra("private") < MaxReconnects
      /\ sockets' = [sockets EXCEPT ![s][i].state = "closed"]
      /\ connected' = [connected EXCEPT ![s] = FALSE]
      /\ private_authenticated' =
           IF s = "private" THEN FALSE ELSE private_authenticated
      /\ reconnects' = IF running THEN SpawnReconnect(reconnects, s)
                       ELSE reconnects
      /\ UNCHANGED <<engineVars, tickers, running, mgr_pc, subscriptions,
                     ping_loops, sub_call, last_frame>>

OnClose == \E s \in Streams : OnCloseOf(s)

\* connect_private.on_close statement by statement.  Line 135:
\* private_connected is cleared
OnClosePrivateConnected ==
    \E i \in DOMAIN sockets["private"] :
      /\ \/ sockets["private"][i].state = "connecting"
         \/ Delivering(sockets["private"][i])
      /\ \/ sockets["private"][i].closing
         \/ ~running
         \/ Extra("public") + Extra("private") < MaxReconnects
      /\ sockets' = [sockets EXCEPT !["private"][i].state = "unflagging"]
      /\ connected' = [connected EXCEPT !["private"] = FALSE]
      /\ UNCHANGED <<engineVars, tickers, private_authenticated, running,
                     mgr_pc, subscriptions, reconnects, ping_loops, sub_call,
                     last_frame>>

\* lines 136-138: private_authenticated is cleared and, while running, a
\* _reconnect_private thread is started
OnClosePrivateAuthenticated ==
    \E i \in DOMAIN sockets["private"] :
      /\ sockets["private"][i].state = "unflagging"
      /\ sockets' = [sockets EXCEPT !["private"][i].state = "closed"]
      /\ private_authenticated' = FALSE
      /\ reconnects' = IF running THEN SpawnReconnect(reconnects, "private")
                       ELSE reconnects
      /\ UNCHANGED <<engineVars, tickers, running, mgr_pc, connected,
                     subscriptions, ping_loops, sub_call, last_frame>>

\* _reconnect_public / _reconnect_private, lines 305-306 and 310-311: after
\* the delay the thread tests running
ReconnectWake ==
    \E s \in Streams :
      /\ reconnects[s].sleeping > 0
      /\ reconnects' =
           [reconnects EXCEPT ![s].sleeping = @ - 1,
                              ![s].checked = IF running THEN @ + 1 ELSE @]
      /\ UNCHANGED <<engineVars, tickers, private_authenticated, running,
                     mgr_pc, sockets, connected, subscriptions, ping_loops,
                     sub_call, last_frame>>

\* _reconnect_public / _reconnect_private, lines 307 and 312
ReconnectConnect ==
    \E s \in Streams :
      /\ reconnects[s].checked > 0
      /\ sockets' = connect(sockets, s)
      /\ reconnects' = [reconnects EXCEPT ![s].checked = @ - 1]
      /\ UNCHANGED <<engineVars, tickers, private_authenticated, running,
                     mgr_pc, connected, subscriptions, ping_loops, sub_call,
                     last_frame>>

\* ws.close() on the current socket of stream s, if there is one
CloseCurrent(socks, s) ==
    IF Len(socks[s]) > 0 /\ socks[s][Len(socks[s])].state # "closed"
    THEN [socks EXCEPT ![s][Len(socks[s])].closing = TRUE]
    ELSE socks

\* close_all, lines 355-359: running is cleared and close() is called on the
\* current socket of each stream
CloseAll ==
    /\ mgr_pc = "running"
    /\ running' = FALSE
    /\ sockets' = CloseCurrent(CloseCurrent(sockets, "public"), "private")
    /\ mgr_pc' = "closed"
    /\ UNCHANGED <<engineVars, tickers, private_authenticated, connected,
                   subscriptions, reconnects, ping_loops, sub_call, last_frame>>

\* _start_ping_thread.ping_loop, lines 287-300: one round of one ping thread
\* of stream s.  It ends when running is cleared; otherwise it pings the
\* current socket of the stream if that one is connected.
PingRound ==
    \E s \in Streams :
      /\ ping_loops[s] > 0
      /\ IF ~running
         THEN /\ ping_loops' = [ping_loops EXCEPT ![s] = @ - 1]
              /\ UNCHANGED sockets
         ELSE /\ UNCHANGED ping_loops
              /\ sockets' =
                   IF Current(s) > 0 /\ Up(sockets[s][Current(s)])
                   THEN [sockets EXCEPT ![s][Current(s)].early_probe =
                            @ \/ (s = "private"
                                  /\ ~sockets[s][Current(s)].authed)]
                   ELSE sockets
      /\ UNCHANGED <<engineVars, tickers, private_authenticated, running,
                     mgr_pc, connected, subscriptions, reconnects, sub_call,
                     last_frame>>

\* ping_loop, lines 298-299: the socket went down between the test of line
\* 290 and the send, the send raises and the thread ends
PingBreak ==
    \E s \in Streams :
      /\ ping_loops[s] > 0
      /\ running
      /\ Current(s) > 0
      /\ sockets[s][Current(s)].state = "closed"
      /\ ping_loops' = [ping_loops EXCEPT ![s] = @ - 1]
      /\ UNCHANGED <<engineVars, tickers, private_authenticated, running,
                     mgr_pc, sockets, connected, subscriptions, reconnects,
                     sub_call, last_frame>>

\* inbound frames of the private stream other than the auth acknowledgment:
\* op for the administrative ones, topic for the data ones
PrivateFrames ==
    {[op |-> "pong", topic |-> ""], [op |-> "subscribe", topic |-> ""],
     [op |-> "", topic |-> "order"], [op |-> "", topic |-> "execution"],
     [op |-> "", topic |-> "wallet"]}

PublicFrames ==
    {[op |-> "pong", topic |-> ""], [op |-> "subscribe", topic |-> ""],
     [op |-> "", topic |-> "tickers.A"], [op |-> "", topic |-> "kline"]}

\* 'order' in topic, 'execution' in topic, topic.startswith('tickers.')
Contains(topic, word) ==
    \/ topic = word
    \/ word = "tickers." /\ topic \in {"tickers.A", "tickers.B"}

\* mutant: every frame is passed to both private handlers
PrivateDispatchAll(cb, frame) == <<cb["order"], cb["execution"]>>

\* _on_private_message, lines 220, 245 and 248-254: the handlers a frame is
\* passed to, in call order
PrivateDispatch(cb, frame) ==
    IF frame.op \in {"auth", "pong", "subscribe"} THEN <<>>
    ELSE IF Contains(frame.topic, "order") /\ cb["order"] # NoHandler
    THEN <<cb["order"]>>
    ELSE IF Contains(frame.topic, "execution") /\ cb["execution"] # NoHandler
    THEN <<cb["execution"]>>
    ELSE <<>>

\* _on_public_message, lines 175-193
PublicDispatch(cb, frame) ==
    IF frame.op \in {"pong", "subscribe"} THEN <<>>
    ELSE IF Contains(frame.topic, "tickers.") /\ cb["tickers"] # NoHandler
    THEN <<cb["tickers"]>>
    ELSE <<>>

\* _on_private_message for a frame that is not an auth acknowledgment.  The
\* data frames here are about orders and executions that are neither the
\* snipe's nor of a tracked position, so the handler they are passed to
\* returns without a change; a pong's sample is recorded by OnPong above.
OnPrivateFrame ==
    \E i \in DOMAIN sockets["private"], frame \in PrivateFrames :
      /\ Delivering(sockets["private"][i])
      /\ last_frame' = [stream |-> "private", op |-> frame.op,
                        topic |-> frame.topic,
                        handlers |-> PrivateDispatch(callbacks, frame),
                        authenticated |-> private_authenticated]
      /\ UNCHANGED <<engineVars, tickers, private_authenticated, running,
                     mgr_pc, sockets, connected, subscriptions, reconnects,
                     ping_loops, sub_call>>

\* _on_public_message: a ticker frame of the sniped symbol replaces the
\* snapshot (lines 183-189)
OnPublicFrame ==
    \E i \in DOMAIN sockets["public"], frame \in PublicFrames :
      /\ Delivering(sockets["public"][i])
      /\ last_frame' = [stream |-> "public", op |-> frame.op,
                        topic |-> frame.topic,
                        handlers |-> PublicDispatch(callbacks, frame),
                        authenticated |-> private_authenticated]
      /\ tickers' = IF frame.op = "" /\ Contains(frame.topic, "tickers.")
                    THEN TickerOf(CHOOSE a \in cfg.asks : TRUE)
                    ELSE tickers
      /\ UNCHANGED <<engineVars, private_authenticated, running, mgr_pc,
                     sockets, connected, subscriptions, reconnects,
                     ping_loops, sub_call>>

-----------------------------------------------------------------------------
(* Delivery: the frames of each stream from arrival to the return of        *)
(* _on_public_message / _on_private_message, on a socket that stays open    *)

MaxFrames == 3

NoDelivery ==
    [s \in Streams |->
       [inbox |-> <<>>, handled |-> <<>>, arrived |-> 0, loop |-> "running"]]

\* what a stream can receive: text that is not JSON, and a data frame whose
\* handler returns or raises
InboundFrames(s) ==
    LET topic == IF s = "private" THEN "order" ELSE "tickers.A"
    IN  {[text |-> "garbled", op |-> "", topic |-> "", raises |-> FALSE],
         [text |-> "json", op |-> "", topic |-> topic, raises |-> FALSE],
         [text |-> "json", op |-> "", topic |-> topic, raises |-> TRUE]}

\* the exchange sends one more frame on the stream
FrameArrives ==
    /\ \E s \in Streams : \E f \in InboundFrames(s) :
         /\ delivery[s].arrived < MaxFrames
         /\ delivery' =
              [delivery EXCEPT
                 ![s].arrived = @ + 1,
                 ![s].inbox =
                     Append(@, [n |-> delivery[s].arrived + 1, frame |-> f])]
    /\ UNCHANGED <<outsideFeed, scanner>>

\* json.loads(message), lines 173 and 201
Decodes(frame) == frame.text = "json"

\* _on_public_message, lines 172-196, and _on_private_message, lines
\* 200-257, for one frame: the handlers it is passed to, and whether the
\* except clause logged an error (the text did not decode, or the handler
\* raised)
MessageOutcome(s, cb, frame) ==
    IF ~Decodes(frame) THEN [handlers |-> <<>>, logged |-> TRUE]
    ELSE LET hs == IF s = "private" THEN PrivateDispatch(cb, frame)
                   ELSE PublicDispatch(cb, frame)
         IN  [handlers |-> hs, logged |-> hs # <<>> /\ frame.raises]

\* mutant: an error ends the delivery loop
AfterMessageStops(outcome) ==
    IF outcome.logged THEN "stopped" ELSE "running"

\* lines 195-196 and 256-257: the exception is logged and the method
\* returns to the socket's loop
AfterMessage(outcome) == "running"

\* on_message, lines 94-95 and 130-131: the socket's thread hands the oldest
\* unhandled frame to the stream's method
OnMessage ==
    /\ \E s \in Streams :
         /\ delivery[s].loop = "running"
         /\ delivery[s].inbox # <<>>
         /\ LET m == Head(delivery[s].inbox)
                outcome == MessageOutcome(s, callbacks, m.frame)
            IN  delivery' =
                  [delivery EXCEPT
                     ![s].inbox = Tail(@),
                     ![s].handled =
                         Append(@, [n |-> m.n, frame |-> m.frame,
                                    handlers |-> outcome.handlers,
                                    logged |-> outcome.logged]),
                     ![s].loop = AfterMessage(outcome)]
    /\ UNCHANGED <<outsideFeed, scanner>>

-----------------------------------------------------------------------------
(* InstrumentScanner (src/trading/scanner.py); times in seconds             *)

MaxScans == 2

\* SniperConfig.max_launch_age_sec
MaxLaunchAgeSec == 3600

ScanSymbols == {"AUSDT", "BUSDT"}

\* launchTime of an instrument: absent (0), in the past, still to come
LaunchTimes == {0, 9000, 12000}
ScanTimes == {10000}

\* what get_usdt_perpetuals can return, lines 21-43: the perpetuals listed
\* by the exchange with their launch times, none when the request failed
Listings ==
    UNION {[syms -> LaunchTimes] : syms \in SUBSET ScanSymbols}

NoScanner ==
    [initialized |-> FALSE, known_symbols |-> {}, initial |-> {},
     scans |-> <<>>]

\* InstrumentScanner.initialize, lines 45-55
ScannerInitialize ==
    /\ ~scanner.initialized
    /\ \E perps \in Listings :
         scanner' = [scanner EXCEPT
                       !.initialized = TRUE,
                       !.known_symbols = @ \cup DOMAIN perps,
                       !.initial = DOMAIN perps]
    /\ UNCHANGED <<outsideFeed, delivery>>

\* scan_for_new, line 74
AgeSec(now, launch_time) == now - launch_time

\* scan_for_new, lines 60-88: the instruments returned for what the
\* exchange lists at time now
NewInstruments(known, perps, now) ==
    LET new_symbols == DOMAIN perps \ known
    IN  {[symbol |-> sym, launch_time |-> perps[sym],
          age_sec |-> AgeSec(now, perps[sym])] :
           sym \in {x \in new_symbols :
                      AgeSec(now, perps[x]) < MaxLaunchAgeSec}}

\* InstrumentScanner.scan_for_new, lines 57-88
ScanForNew ==
    /\ scanner.initialized
    /\ Len(scanner.scans) < MaxScans
    /\ \E perps \in Listings, now \in ScanTimes :
         scanner' = [scanner EXCEPT
                       !.known_symbols = @ \cup DOMAIN perps,
                       !.scans =
                           Append(@, [listed |-> DOMAIN perps,
                                      known_before |-> scanner.known_symbols,
                                      returned |->
                                        NewInstruments(scanner.known_symbols,
                                                       perps, now)])]
    /\ UNCHANGED <<outsideFeed, delivery>>

-----------------------------------------------------------------------------
(* PositionManager: the ledger of the tracked symbol, its journal and the   *)
(* exit path (src/trading/position.py), and the part of the run loop that   *)
(* feeds it (src/bot.py).  Quantities are whole contracts, prices cents.    *)

\* exits handled, and add_position calls made
MaxExits == 2
MaxAdds == 2
MaxSnipes == 2

\* the symbol the ledger tracks, and one it does not
TrackedSymbol == "X"
LedgerSymbols == {"X", "Y"}
Sides == {"Buy", "Sell"}
AddQtys == {5, 3}
AddPrices == {1000}
FillQtys == {0, 5}
FillPrices == {1050}

\* what a journal left by an earlier process can hold
OldPosition == add_position("Buy", 3, 1000)
OldTrade == TradeOf(OldPosition, 3, 1100)
ForeignEntry == [trade |-> TradeOf(OldPosition, 3, 900), keys |-> "other"]
StartJournals ==
    {NoJournal,
     [state |-> "list", entries |-> <<JournalEntry(OldTrade)>>],
     [state |-> "list", entries |-> <<ForeignEntry, JournalEntry(OldTrade)>>],
     [state |-> "corrupt", entries |-> <<>>]}

NoStop == [requests |-> 0, returned |-> "none", resp |-> ""]
NoSnipes == [attempted |-> 0, successful |-> 0]

\* before PositionManager is constructed, with journal j on disk
BookStart(j) ==
    /\ journal = j
    /\ journal0 = j
    /\ exit_pc = "idle"
    /\ exit_log = <<>>
    /\ callback_log = <<>>
    /\ on_exit_callback = FALSE
    /\ adds = 0
    /\ run_pc = "idle"
    /\ stop = NoStop
    /\ snipes = NoSnipes
    /\ delivery = NoDelivery
    /\ scanner = NoScanner

BookNew == BookStart(NoJournal)

\* what the ledger part leaves alone
outsideBook == <<init_pc, tickers, cfg, pc, loc, order_fills, exchVars,
                 clockVars, streamVars>>

\* mutant: the callback is invoked right after the append
NextExitStepNotifyFirst(step) ==
    CASE step = "append"   -> "callback"
      [] step = "callback" -> "save"
      [] step = "save"     -> "remove"
      [] step = "remove"   -> "idle"

\* _handle_exit, lines 197-211: the statement that follows each of append,
\* _save_trades, del and the callback
NextExitStep(step) ==
    CASE step = "append"   -> "save"
      [] step = "save"     -> "remove"
      [] step = "remove"   -> "callback"
      [] step = "callback" -> "idle"

\* mutant: a failed write raises out of _handle_exit
AfterSaveRaises(outcome) ==
    IF outcome = "ok" THEN NextExitStep("save") ELSE "idle"

\* _save_trades, lines 98 and 120-121: the write's exception is caught, so
\* _handle_exit goes on whatever the outcome
AfterSave(outcome) == NextExitStep("save")

\* _handle_exit, lines 160-197, for an exit of qty at exit_price that finds
\* its position: the TradeResult is built and appended
HandleExitBegin(cause, qty, exit_price) ==
    LET trade == TradeOf(positions, qty, exit_price)
    IN  /\ completed_trades' = Append(completed_trades, trade)
        /\ exit_log' =
             Append(exit_log,
                    [trade |-> trade, cause |-> cause, pos |-> positions,
                     saved |-> "none", written |-> <<>>, removed |-> FALSE,
                     calls |-> 0, saved_at_call |-> "none",
                     listed_at_call |-> FALSE])
        /\ exit_pc' = NextExitStep("append")

\* WebSocketManager._on_private_message routing one execution frame and
\* PositionManager._on_execution, lines 123-137, for its fill
OnExecutionFrame ==
    /\ exit_pc = "idle"
    /\ Len(exit_log) < MaxExits
    /\ \E symbol \in LedgerSymbols, side \in Sides, qty \in FillQtys,
          price \in FillPrices :
         IF /\ PrivateRoute(callbacks, "execution") = LedgerExecHandler
            /\ symbol = TrackedSymbol
            /\ positions.open
            /\ side = "Sell"
         THEN HandleExitBegin([kind |-> "execution", symbol |-> symbol,
                               side |-> side, qty |-> qty, price |-> price],
                              qty, price)
         ELSE UNCHANGED <<completed_trades, exit_log, exit_pc>>
    /\ UNCHANGED <<outsideBook, callbacks, positions, result, journal,
                   journal0, callback_log, on_exit_callback, adds, run_pc,
                   stop,
                   snipes, feedVars>>

\* WebSocketManager._on_private_message routing one order frame and
\* PositionManager._on_order, lines 139-156, for its order
OnTrailingFrame ==
    /\ exit_pc = "idle"
    /\ Len(exit_log) < MaxExits
    /\ \E symbol \in LedgerSymbols, status \in {"Filled", "New"},
          stop_order_type \in {"TrailingStop", ""}, qty \in FillQtys,
          price \in FillPrices :
         IF /\ PrivateRoute(callbacks, "order") = LedgerOrderHandler
            /\ status = "Filled"
            /\ stop_order_type = "TrailingStop"
            /\ symbol = TrackedSymbol
            /\ positions.open
            /\ price > 0
            /\ qty > 0
         THEN HandleExitBegin([kind |-> "order", symbol |-> symbol,
                               side |-> "", qty |-> qty, price |-> price],
                              qty, price)
         ELSE UNCHANGED <<completed_trades, exit_log, exit_pc>>
    /\ UNCHANGED <<outsideBook, callbacks, positions, result, journal,
                   journal0, callback_log, on_exit_callback, adds, run_pc,
                   stop,
                   snipes, feedVars>>

\* _handle_exit, line 198: self._save_trades()
ExitSave ==
    /\ exit_pc = "save"
    /\ \E outcome \in {"ok", "unopened", "truncated"} :
         /\ journal' = WriteJournal(journal, completed_trades, outcome)
         /\ exit_log' =
              [exit_log EXCEPT
                 ![Len(exit_log)].saved =
                     IF outcome = "ok" THEN "ok" ELSE "failed",
                 ![Len(exit_log)].written =
                     IF outcome = "ok" THEN Serialize(completed_trades)
                     ELSE <<>>]
         /\ exit_pc' = AfterSave(outcome)
    /\ UNCHANGED <<outsideBook, callbacks, ledgerVars, result, journal0,
                   callback_log, on_exit_callback, adds, run_pc, stop,
                   snipes, feedVars>>

\* mutant: the closed position stays in the map
RemovePositionKeeps(pos) == pos

\* _handle_exit, line 201: what del self.positions[symbol] leaves for the
\* symbol
RemovePosition(pos) == NoPosition

\* _handle_exit, line 201: del self.positions[symbol]
ExitRemove ==
    /\ exit_pc = "remove"
    /\ positions' = RemovePosition(positions)
    /\ exit_log' = [exit_log EXCEPT ![Len(exit_log)].removed = TRUE]
    /\ exit_pc' = NextExitStep("remove")
    /\ UNCHANGED <<outsideBook, callbacks, completed_trades, result, journal,
                   journal0, callback_log, on_exit_callback, adds, run_pc,
                   stop,
                   snipes, feedVars>>

\* _handle_exit, lines 210-211: the exit callback, when one is set
ExitCallback ==
    /\ exit_pc = "callback"
    /\ LET e == exit_log[Len(exit_log)]
       IN  IF on_exit_callback
           THEN /\ callback_log' = Append(callback_log, e.trade)
                /\ exit_log' =
                     [exit_log EXCEPT
                        ![Len(exit_log)].calls = @ + 1,
                        ![Len(exit_log)].saved_at_call = e.saved,
                        ![Len(exit_log)].listed_at_call =
                            e.trade \in Range(completed_trades)]
           ELSE UNCHANGED <<callback_log, exit_log>>
    /\ exit_pc' = NextExitStep("callback")
    /\ UNCHANGED <<outsideBook, callbacks, ledgerVars, result, journal,
                   journal0, on_exit_callback, adds, run_pc, stop,
                   snipes, feedVars>>

\* PositionManager.add_position called by a user of the class
AddPositionCall ==
    /\ init_pc = "ready"
    /\ adds < MaxAdds
    /\ \E side \in Sides, qty \in AddQtys, entry_price \in AddPrices :
         positions' = add_position(side, qty, entry_price)
    /\ adds' = adds + 1
    /\ UNCHANGED <<outsideBook, callbacks, completed_trades, result, journal,
                   journal0, exit_pc, exit_log, callback_log,
                   on_exit_callback, run_pc, stop,
                   snipes, feedVars>>

\* the SnipeResults execute_snipe hands to the run loop: no fill, or fills
\* at one price
RunResults ==
    {EmptyResult} \cup
    {[EmptyResult EXCEPT !.success = TRUE, !.filled_qty = q,
                         !.filled_value = q * p,
                         !.avg_entry = Quotient(q * p, q), !.orders_sent = 1]
       : q \in {5}, p \in AddPrices}

\* mutant: the check never finds a position
has_positionNever(pos) == FALSE

\* PositionManager.has_position, lines 232-234: the symbol has a position
has_position(pos) == pos.open

\* ListingSniperBot.run, lines 182-191: the next new listing; a symbol with
\* a position is skipped, any other counts as an attempt and is sniped
RunNextListing ==
    /\ init_pc = "ready"
    /\ run_pc = "idle"
    /\ snipes.attempted < MaxSnipes
    /\ IF has_position(positions)
       THEN UNCHANGED <<run_pc, snipes, feedVars>>
       ELSE /\ snipes' = [snipes EXCEPT !.attempted = @ + 1]
            /\ run_pc' = "snipe"
    /\ UNCHANGED <<outsideBook, callbacks, ledgerVars, result, journal,
                   journal0, exit_pc, exit_log, callback_log,
                   on_exit_callback, adds, stop, feedVars>>

\* run, lines 196-200: execute_snipe returns; a success is counted
RunSnipeReturns ==
    /\ run_pc = "snipe"
    /\ \E r \in RunResults :
         /\ result' = r
         /\ snipes' = IF r.success
                      THEN [snipes EXCEPT !.successful = @ + 1]
                      ELSE snipes
         /\ run_pc' = IF r.success THEN "add" ELSE "idle"
    /\ UNCHANGED <<outsideBook, callbacks, ledgerVars, journal, journal0,
                   exit_pc, exit_log, callback_log, on_exit_callback, adds,
                   stop, feedVars>>

\* run, lines 202-207: the position of the snipe is added
RunAddPosition ==
    /\ run_pc = "add"
    /\ positions' = add_position("Buy", result.filled_qty, result.avg_entry.q)
    /\ adds' = adds + 1
    /\ run_pc' = "stop"
    /\ UNCHANGED <<outsideBook, callbacks, completed_trades, result, journal,
                   journal0, exit_pc, exit_log, callback_log,
                   on_exit_callback, stop,
                   snipes, feedVars>>

\* mutant: a failure is reported as success
StopOutcomeAlwaysTrue(resp) == "true"

\* Sniper.set_trailing_stop, lines 249-258: what the call returns for the
\* exchange's answer ("ok": retCode 0, "rejected": another retCode, "raise":
\* the request raised)
StopOutcome(resp) == IF resp = "ok" THEN "true" ELSE "false"

\* run, line 210, and Sniper.set_trailing_stop, lines 235-258: one
\* trading-stop request; the return value is not looked at
RunSetTrailingStop ==
    /\ run_pc = "stop"
    /\ \E resp \in {"ok", "rejected", "raise"} :
         stop' = [requests |-> stop.requests + 1,
                  returned |-> StopOutcome(resp), resp |-> resp]
    /\ run_pc' = "mark"
    /\ UNCHANGED <<outsideBook, callbacks, ledgerVars, result, journal,
                   journal0, exit_pc, exit_log, callback_log,
                   on_exit_callback, adds, snipes, feedVars>>

\* run, lines 213-215: the position, when it is still there, is marked
RunMarkTrailing ==
    /\ run_pc = "mark"
    /\ positions' = IF positions.open
                    THEN [positions EXCEPT !.trailing_set = TRUE]
                    ELSE positions
    /\ run_pc' = "idle"
    /\ UNCHANGED <<outsideBook, callbacks, completed_trades, result, journal,
                   journal0, exit_pc, exit_log, callback_log,
                   on_exit_callback, adds, stop,
                   snipes, feedVars>>

-----------------------------------------------------------------------------
(* Specifications *)

InitEngine ==
    /\ tickers = NoTicker
    /\ positions = NoPosition
    /\ completed_trades = <<>>
    /\ cfg \in Configs
    /\ pc = "idle"
    /\ loc = InitLoc
    /\ result = EmptyResult
    /\ order_fills = <<>>
    /\ placed = <<>>
    /\ pushed = 0
    /\ private_authenticated = FALSE
    /\ clock_offset_ms = 0
    /\ clock_offset_samples = <<>>
    /\ ping_send_times = <<>>
    /\ ping_counter = 0
    /\ sync = [state |-> "none", i |-> 0]
    /\ prober = [started |-> FALSE, sent |-> 0]
    /\ accepted = <<>>
    /\ burst_samples = <<>>
    /\ StreamNew

InitCommon == InitEngine /\ BookNew

\* the process after WebSocketManager.__init__ and connect_all
Init ==
    /\ callbacks = [t \in Topics |-> NoHandler]
    /\ init_pc = "connected"
    /\ InitCommon

SniperStep ==
    \/ StartSnipe
    \/ LoopHead
    \/ ReadTicker
    \/ PlaceOrder
    \/ CheckFills
    \/ Finish

Next ==
    \/ BotInitSniper
    \/ BotInitPositionManager
    \/ SniperStep
    \/ OnOrderFrame
    \/ OnTickerFrame

\* the system as wired by the orchestrator
Spec == Init /\ [][Next]_vars

\* the ladder engine constructed on a stream manager by itself: the only
\* registration is the one of Sniper.__init__
InitLadder ==
    /\ callbacks = on([t \in Topics |-> NoHandler], "order", SniperHandler)
    /\ init_pc = "standalone"
    /\ InitCommon

NextLadder ==
    \/ SniperStep
    \/ OnOrderFrame
    \/ OnTickerFrame

SpecLadder == InitLadder /\ [][NextLadder]_vars

\* the calling thread is scheduled: it is never starved by the streams
FairLadder == SpecLadder /\ WF_vars(SniperStep)

\* the private stream from its first authentication on
InitClock ==
    /\ callbacks = [t \in Topics |-> NoHandler]
    /\ init_pc = "connected"
    /\ InitCommon
    /\ cfg = ScenarioA

NextClock ==
    \/ OnAuthSuccess
    \/ SyncPing
    \/ SyncEstimate
    \/ SteadyPing
    \/ OnPong

SpecClock == InitClock /\ [][NextClock]_vars

\* the same, recording which samples the calibration's own pings produced
NextCalibration ==
    \/ OnAuthSuccess
    \/ SyncPing
    \/ SyncEstimate
    \/ SteadyPing
    \/ OnBurstPong

SpecCalibration == InitClock /\ [][NextCalibration]_vars

\* the stream manager alone, with the handlers of the orchestrator and a
\* ticker handler registered, from its construction on
InitStream ==
    /\ callbacks = on(on(on([t \in Topics |-> NoHandler],
                            "execution", LedgerExecHandler),
                         "order", LedgerOrderHandler),
                      "tickers", TickerHandler)
    /\ init_pc = "standalone"
    /\ InitCommon
    /\ cfg = ScenarioA

ReconnectStep ==
    \/ ReconnectWake
    \/ ReconnectConnect

NextStream ==
    \/ ConnectAllPrivate
    \/ ConnectAllPublic
    \/ SubscribeExtend
    \/ SubscribeSend
    \/ OnOpenPublic
    \/ OnOpenPublicFlush
    \/ OnOpenPrivate
    \/ OnAuthAck
    \/ OnAuthFlush
    \/ OnClose
    \/ ReconnectStep
    \/ CloseAll
    \/ PingRound
    \/ PingBreak

SpecStream == InitStream /\ [][NextStream]_vars

\* the delivery threads of the two streams: connections, reconnections and
\* the inbound frames
NextRouter ==
    \/ ConnectAllPrivate
    \/ ConnectAllPublic
    \/ OnOpenPublic
    \/ OnOpenPublicFlush
    \/ OnOpenPrivate
    \/ OnAuthAck
    \/ OnAuthFlush
    \/ OnClose
    \/ ReconnectStep
    \/ OnPrivateFrame
    \/ OnPublicFrame

SpecRouter == InitStream /\ [][NextRouter]_vars

\* connections, closes and reconnections only
NextLifecycle ==
    \/ ConnectAllPrivate
    \/ ConnectAllPublic
    \/ OnOpenPublic
    \/ OnOpenPublicFlush
    \/ OnOpenPrivate
    \/ OnAuthAck
    \/ OnAuthFlush
    \/ OnClose
    \/ ReconnectStep
    \/ CloseAll

SpecLifecycle == InitStream /\ [][NextLifecycle]_vars

\* the same with the subscribe calls of the orchestrator's thread
NextSubscribe ==
    \/ ConnectAllPrivate
    \/ ConnectAllPublic
    \/ SubscribeExtend
    \/ SubscribeSend
    \/ OnOpenPublic
    \/ OnOpenPublicFlush
    \/ OnOpenPrivate
    \/ OnAuthAck
    \/ OnAuthFlush
    \/ OnClose
    \/ ReconnectStep
    \/ CloseAll

SpecSubscribe == InitStream /\ [][NextSubscribe]_vars

\* the reconnect threads are scheduled
FairLifecycle == SpecLifecycle /\ WF_vars(ReconnectStep)

\* the same, with connect_public / connect_private also called on a stream
\* that already has a socket
NextConnect ==
    \/ ConnectAllPrivate
    \/ ConnectAllPublic
    \/ ConnectAgain
    \/ OnOpenPublic
    \/ OnOpenPublicFlush
    \/ OnOpenPrivate
    \/ OnAuthAck
    \/ OnAuthFlush
    \/ OnClose
    \/ ReconnectStep
    \/ PingRound
    \/ PingBreak

SpecConnect == InitStream /\ [][NextConnect]_vars

\* connections, closes and reconnections, with the private stream's on_close
\* taken one statement at a time
NextFlags ==
    \/ ConnectAllPrivate
    \/ ConnectAllPublic
    \/ OnOpenPublic
    \/ OnOpenPublicFlush
    \/ OnOpenPrivate
    \/ OnAuthAck
    \/ OnAuthFlush
    \/ OnCloseOf("public")
    \/ OnClosePrivateConnected
    \/ OnClosePrivateAuthenticated
    \/ ReconnectStep
    \/ CloseAll

SpecFlags == InitStream /\ [][NextFlags]_vars

-----------------------------------------------------------------------------
(* Properties of the ladder engine *)

LastPlaced == placed[Len(placed)]

ValidTicker == tickers.present /\ tickers.parsable /\ tickers.ask > 0

\* the loop was left through the minimum-notional break of line 167
BrokeOnMinNotional ==
    loc.limit_price > 0 /\ loc.notional < cfg.min_notional

\* C1: in the system as wired by the orchestrator, every order-update frame
\* of a snipe order that carries an executed quantity > 0 is appended to the
\* engine's fill accumulator: during a snipe the accumulator holds one entry
\* per such frame.
C1_FramesReachEngine ==
    pc # "idle" => Len(order_fills) = pushed

\* C3: execute_snipe always returns, whatever the environment does.
C3_AlwaysReturns == <>(pc = "done")

\* C4: a snipe that returns without an error left the loop because the
\* filled notional reached the budget, or orders_sent reached the cap, or the
\* next order's notional was below the minimum; orders_sent never exceeds
\* the cap.
C4_TerminationCause ==
    /\ loc.orders_sent <= cfg.max_orders
    /\ (pc = "done" /\ result.error = "") =>
         \/ loc.filled_value >= cfg.budget
         \/ loc.orders_sent >= cfg.max_orders
         \/ BrokeOnMinNotional

C4_Witness ==
    /\ pc = "done" /\ result.error = ""
    /\ loc.filled_value < cfg.budget
    /\ loc.orders_sent < cfg.max_orders
    /\ loc.orders_sent >= 1
    /\ BrokeOnMinNotional

\* C5: at return the filled notional exceeds the budget by at most the
\* notional of one order (the last one placed), whatever order updates the
\* exchange pushes, several updates for one order included.
C5_BoundedOvershoot ==
    pc = "done" =>
      result.filled_value
        <= cfg.budget + (IF placed = <<>> THEN 0 ELSE LastPlaced.notional)

\* C6: every submitted order has a quantity >= the minimum quantity and a
\* notional (quantity x rounded limit price) >= the minimum notional; when
\* the computed notional is below the minimum, nothing is submitted and the
\* ladder is over.
C6_OrderMinimums ==
    /\ \A i \in DOMAIN placed :
         /\ placed[i].qty >= cfg.min_qty
         /\ placed[i].qty * placed[i].price >= cfg.min_notional
    /\ (loc.limit_price > 0
        /\ loc.qty * loc.limit_price < cfg.min_notional)
         => pc \in {"finish", "done"}

\* an order whose rounded quantity was below the minimum was submitted
C6_Witness ==
    \E i \in DOMAIN placed :
      /\ round_qty(placed[i].remaining, placed[i].price, cfg.qty_step)
           < cfg.min_qty
      /\ placed[i].qty = cfg.min_qty

\* C7: on every return path success is true iff the result's filled quantity
\* is > 0, and then avg_entry is filled_value / filled_qty, so that
\* avg_entry x filled_qty gives filled_value back.
C7_SuccessAndAverage ==
    pc = "done" =>
      /\ result.success <=> result.filled_qty > 0
      /\ result.success =>
           /\ result.avg_entry.d = result.filled_qty
           /\ result.avg_entry.r >= 0
           /\ result.avg_entry.r < result.avg_entry.d
           /\ result.avg_entry.q * result.filled_qty + result.avg_entry.r
                = result.filled_value

\* a successful snipe whose average is not one of the fill prices
C7_Witness ==
    /\ pc = "done"
    /\ result.success
    /\ result.avg_entry.r # 0

\* Scenario A: exactly one update, the full fill at the limit price, was
\* counted for the accepted first order, and the snipe returned normally
ScenarioAFilled ==
    /\ cfg.name = "A"
    /\ pc = "done"
    /\ result.error = ""
    /\ placed # <<>>
    /\ placed[1].resp = "ok"
    /\ Len(result.fills) = 1
    /\ result.fills[1].order_link_id = placed[1].order_link_id
    /\ result.fills[1].qty = placed[1].qty
    /\ result.fills[1].avg_price = placed[1].price

\* C8 as stated: in Scenario A the first order is 100 @ 1.0005, and fully
\* filled it gives success, avg_entry 1.0005, filled_value 100.05 and
\* orders_sent 1.
C8_ScenarioA_Stated ==
    cfg.name = "A" =>
      /\ placed # <<>> =>
           placed[1].qty = 100 * QtyDen /\ placed[1].price = 10005
      /\ ScenarioAFilled =>
           /\ result.success
           /\ result.avg_entry = [q |-> 10005, r |-> 0, d |-> 100 * QtyDen]
           /\ result.filled_value = 100 * QtyDen * 10005
           /\ result.orders_sent = 1

\* C8 amended: in Scenario A the first order is 99 @ 1.0005 (the quantity is
\* rounded down), and fully filled it gives success, avg_entry 1.0005,
\* filled_value 99.0495 and orders_sent 1.
C8_ScenarioA ==
    cfg.name = "A" =>
      /\ placed # <<>> =>
           placed[1].qty = 99 * QtyDen /\ placed[1].price = 10005
      /\ ScenarioAFilled =>
           /\ result.success
           /\ result.avg_entry = [q |-> 10005, r |-> 0, d |-> 99 * QtyDen]
           /\ result.filled_value = 99 * QtyDen * 10005
           /\ result.orders_sent = 1

C8_Witness == ScenarioAFilled /\ result.success

\* Scenario B: a valid ticker, every order accepted, no fill ever arrived
ScenarioB ==
    /\ pc = "done"
    /\ ValidTicker
    /\ \A i \in DOMAIN placed : placed[i].resp = "ok"
    /\ order_fills = <<>>

ScenarioBOutcome ==
    /\ result.orders_sent = cfg.max_orders
    /\ Len(placed) = cfg.max_orders
    /\ ~result.success
    /\ result.error = ""
    /\ result.filled_qty = 0

\* C9 as stated: in Scenario B the snipe returns after exactly max_orders
\* submissions with success false, an empty error and filled_qty 0.
C9_ScenarioB_Stated == ScenarioB => ScenarioBOutcome

\* C9 amended: the same, for a ladder whose orders reach the minimum
\* notional.
C9_ScenarioB == (ScenarioB /\ ~BrokeOnMinNotional) => ScenarioBOutcome

C9_Witness ==
    /\ ScenarioB
    /\ ~BrokeOnMinNotional
    /\ cfg.name = "S"
    /\ result.orders_sent = cfg.max_orders

\* C10: a rejected submission counts in orders_sent, does not end the snipe,
\* and is followed by a freshly computed order: a new correlation id, and a
\* quantity derived again from the price and the remaining budget.
C10_RejectionContinues ==
    /\ loc.orders_sent =
         Cardinality({i \in DOMAIN placed : placed[i].resp # "raise"})
    /\ \A i, j \in DOMAIN placed :
         i # j => placed[i].order_link_id # placed[j].order_link_id
    /\ \A i \in DOMAIN placed :
         (placed[i].resp = "rejected" /\ i < Len(placed)) =>
           placed[i + 1].qty =
             PromoteQty(round_qty(placed[i + 1].remaining,
                                  placed[i + 1].price, cfg.qty_step),
                        cfg.min_qty)
    /\ (placed # <<>> /\ LastPlaced.resp = "rejected") =>
         /\ pc \in {"wait", "loop"} => result.error = ""
         /\ (pc = "done" /\ result.error = "") =>
              loc.orders_sent >= cfg.max_orders \/ BrokeOnMinNotional

\* a rejected order was followed by another submission
C10_Witness ==
    \E i \in DOMAIN placed :
      placed[i].resp = "rejected" /\ i < Len(placed)

-----------------------------------------------------------------------------
(* Properties of the clock sync *)

\* the last n elements of a sequence
LastN(sq, n) ==
    IF Len(sq) <= n THEN sq ELSE SubSeq(sq, Len(sq) - n + 1, Len(sq))

\* m is a median of the non-empty sequence w: one of its values, with at
\* least half of the values on either side of it
IsMedianOf(m, w) ==
    /\ \E i \in DOMAIN w : w[i] = m
    /\ 2 * Cardinality({i \in DOMAIN w : w[i] <= m}) >= Len(w)
    /\ 2 * Cardinality({i \in DOMAIN w : w[i] >= m}) >= Len(w)

\* the window is the last (at most 10) recorded samples, in arrival order
WindowIsRecent ==
    /\ Len(clock_offset_samples) <= WindowSize
    /\ clock_offset_samples = LastN(accepted, WindowSize)

\* C2 as stated: the window holds the most recent (at most 10) samples in
\* arrival order, and once a sample is recorded the offset is the median of
\* the window in every state, the states after the calibration included.
C2_OffsetIsWindowMedian_Stated ==
    /\ WindowIsRecent
    /\ accepted # <<>> => IsMedianOf(clock_offset_ms, clock_offset_samples)

\* C2 amended: the window holds the most recent (at most 10) samples in
\* arrival order; each recorded sample sets the offset to the median of the
\* window; the calibration's estimate sets it to the median of the window
\* without its first two samples (when it holds more than two); nothing
\* else changes the offset.
C2_OffsetIsWindowMedian ==
    /\ []WindowIsRecent
    /\ [][/\ accepted' # accepted =>
               IsMedianOf(clock_offset_ms', clock_offset_samples')
          /\ (accepted' = accepted /\ sync.state = "sleeping"
              /\ sync'.state = "done"
              /\ Len(clock_offset_samples) > WarmupSamples) =>
               IsMedianOf(clock_offset_ms',
                          SubSeq(clock_offset_samples, WarmupSamples + 1,
                                 Len(clock_offset_samples)))
          /\ (accepted' = accepted
              /\ ~(sync.state = "sleeping" /\ sync'.state = "done")) =>
               clock_offset_ms' = clock_offset_ms]_vars

\* an 11th sample has evicted the oldest and the calibration has written
\* an estimate that is not a median of the window
C2_Witness ==
    /\ Len(accepted) > WindowSize
    /\ sync.state = "done"
    /\ ~IsMedianOf(clock_offset_ms, clock_offset_samples)

\* the position manager alone: constructed over a journal an earlier process
\* may have left, then driven through its public methods and its handlers
InitLedger ==
    /\ callbacks = on([t \in Topics |-> NoHandler], "order", SniperHandler)
    /\ init_pc = "sniper"
    /\ InitEngine
    /\ cfg = ScenarioA
    /\ \E j \in StartJournals : BookStart(j)

ExitStep ==
    \/ ExitSave
    \/ ExitRemove
    \/ ExitCallback

NextLedger ==
    \/ BotInitPositionManager
    \/ AddPositionCall
    \/ OnExecutionFrame
    \/ OnTrailingFrame
    \/ ExitStep

SpecLedger == InitLedger /\ [][NextLedger]_vars

\* the run loop's handling of a returned snipe, with the position manager,
\* on a first start (no journal yet)
NextRun ==
    \/ BotInitPositionManager
    \/ RunNextListing
    \/ RunSnipeReturns
    \/ RunAddPosition
    \/ RunSetTrailingStop
    \/ RunMarkTrailing
    \/ OnExecutionFrame
    \/ OnTrailingFrame
    \/ ExitStep

InitRun ==
    /\ callbacks = on([t \in Topics |-> NoHandler], "order", SniperHandler)
    /\ init_pc = "sniper"
    /\ InitEngine
    /\ cfg = ScenarioA
    /\ BookNew

SpecRun == InitRun /\ [][NextRun]_vars

\* the delivery of frames alone
NextDelivery ==
    \/ FrameArrives
    \/ OnMessage

SpecDelivery == InitStream /\ [][NextDelivery]_vars

\* the scanner alone
NextScanner ==
    \/ ScannerInitialize
    \/ ScanForNew

SpecScanner == InitStream /\ [][NextScanner]_vars

-----------------------------------------------------------------------------
(* Properties of the stream manager *)


\* number of subscribe frames of sq that carry topic t
RECURSIVE FramesWith(_, _)
FramesWith(sq, t) ==
    IF sq = <<>> THEN 0
    ELSE (IF t \in Range(Head(sq)) THEN 1 ELSE 0) + FramesWith(Tail(sq), t)

\* C11: on the private stream no subscribe frame and no clock-sync probe is
\* sent on a socket before its authentication success acknowledgment has been
\* received, on the first connection and on every reconnection, and without
\* that acknowledgment (a failure included) no subscription is sent, no
\* calibration and no prober is started.
C11_NothingBeforeAuth ==
    /\ \A i \in DOMAIN sockets["private"] :
         LET sock == sockets["private"][i]
         IN  /\ ~sock.early_sub
             /\ ~sock.early_probe
             /\ ~sock.authed => (sock.subs = <<>> /\ ~sock.calibrating)
    /\ ping_loops["private"] <=
         Cardinality({i \in DOMAIN sockets["private"] :
                        sockets["private"][i].authed})

\* C12: a private frame that arrives while private_authenticated is false
\* (on a reconnected socket before its re-authentication acknowledgment has
\* been processed) is passed to no handler.
C12_NoRoutingBeforeAuth ==
    (last_frame.stream = "private" /\ ~last_frame.authenticated)
        => last_frame.handlers = <<>>

\* the handler that makes socket i of stream s ready completes in this step
BecomesReady(s, i) ==
    /\ sockets[s][i].state \in {"opening", "flagged"}
    /\ sockets'[s][i].state = "ready"

\* this step sends on socket i of stream s one subscribe frame that carries
\* every topic stored for the stream
ReplaysAll(s, i) ==
    /\ Len(sockets'[s][i].subs) = Len(sockets[s][i].subs) + 1
    /\ Range(subscriptions[s])
         \subseteq Range(sockets'[s][i].subs[Len(sockets'[s][i].subs)])

\* C13 as stated: every (re)connection of a stream with stored topics sends a
\* subscribe frame that covers all of them when the socket opens (public) or
\* its authentication succeeds (private).
C13_ReconnectReplays_Stated ==
    [][\A s \in Streams : \A i \in DOMAIN sockets[s] :
         (BecomesReady(s, i) /\ subscriptions[s] # <<>>) => ReplaysAll(s, i)]_vars

\* C13: every (re)connection of a stream with stored topics sends a
\* subscribe frame that covers all of them when the socket opens (public) or
\* its authentication succeeds (private), unless close_all has closed the
\* socket in the meantime; then nothing is sent on it.
C13_ReconnectReplays ==
    [][\A s \in Streams : \A i \in DOMAIN sockets[s] :
         (BecomesReady(s, i) /\ subscriptions[s] # <<>>)
            => IF sockets[s][i].closing
               THEN sockets'[s][i].subs = sockets[s][i].subs
               ELSE ReplaysAll(s, i)]_vars

\* a reconnected socket of a stream has replayed topics of two calls
C13_Witness ==
    \E s \in Streams :
      /\ Len(sockets[s]) = 2
      /\ sockets[s][1].state = "closed"
      /\ sockets[s][2].state = "ready"
      /\ sockets[s][2].subs # <<>>
      /\ Len(sockets[s][2].subs[1]) >= 2

\* C14: a topic passed to subscribe is sent exactly once on a socket: at once
\* if the stream is ready, otherwise when the stream becomes ready, whatever
\* the interleaving of the call with the open / authentication callback.
C14_SentExactlyOnce ==
    \A s \in Streams : \A i \in DOMAIN sockets[s] :
      \A t \in Range(subscriptions[s]) :
        /\ FramesWith(sockets[s][i].subs, t) <= 1
        /\ (/\ sockets[s][i].state = "ready"
            /\ ~sockets[s][i].closing
            /\ ~(sub_call.pc = "extended" /\ sub_call.stream = s))
              => FramesWith(sockets[s][i].subs, t) >= 1

\* sockets of stream s whose delivery thread is alive
LiveSockets(s) == {i \in DOMAIN sockets[s] : sockets[s][i].state # "closed"}

\* C15: a stream never has more than one socket and one delivery loop,
\* however often connect is called.
C15_ConnectIdempotent ==
    \A s \in Streams : Cardinality(LiveSockets(s)) <= 1

\* C16: once close_all has returned, no stream has a socket that is open or
\* connecting and was not closed by it.
C16_CloseSuppressesReconnect ==
    mgr_pc = "closed" =>
      \A s \in Streams : \A i \in DOMAIN sockets[s] :
        sockets[s][i].state = "closed" \/ sockets[s][i].closing

\* the k-th socket of stream s has closed while the manager runs and no
\* connection has been attempted since
ClosedUnanswered(s, k) ==
    /\ running
    /\ Len(sockets[s]) = k
    /\ sockets[s][k].state = "closed"

C18_OneProber == \A s \in Streams : ping_loops[s] <= 1

\* the key under which the handler of a data frame's topic is registered
TopicKey(topic) ==
    IF Contains(topic, "order") THEN "order"
    ELSE IF Contains(topic, "execution") THEN "execution"
    ELSE "tickers"

\* C19: an inbound frame is passed to at most one handler, the one
\* registered for its topic, and an administrative frame (auth
\* acknowledgment, pong, subscribe acknowledgment) to none.
C19_AtMostOneHandler ==
    /\ Len(last_frame.handlers) <= 1
    /\ last_frame.op \in {"auth", "pong", "subscribe"}
         => last_frame.handlers = <<>>
    /\ last_frame.handlers # <<>>
         => last_frame.handlers[1] = callbacks[TopicKey(last_frame.topic)]

\* an order frame, an execution frame and a ticker frame each reached the
\* handler of their topic
C19_Witness ==
    /\ last_frame.topic \in {"order", "execution", "tickers.A"}
    /\ Len(last_frame.handlers) = 1

\* C20: the clock offset is 0 in every state before the calibration burst has
\* written its estimate, recorded samples or not.
C20_OffsetZeroUntilSettled == sync.state # "done" => clock_offset_ms = 0

\* C21: when the calibration writes its estimate, the offset is the median of
\* the samples its own burst produced without the burst's first two; samples
\* of the steady prober are neither skipped as warm-up nor part of the median.
C21_BurstMedian ==
    [][(sync.state = "sleeping" /\ sync'.state = "done"
        /\ Len(burst_samples) > WarmupSamples)
        => clock_offset_ms' =
             MiddleOf(SubSeq(burst_samples, WarmupSamples + 1,
                             Len(burst_samples)))]_vars

-----------------------------------------------------------------------------
(* Properties of the ledger and of the run loop *)

\* C22: an add_position for a symbol whose Position is open does not replace
\* that Position's quantity and entry price: while the symbol stays open the
\* two do not change.
C22_NoSilentReplace ==
    [][(positions.open /\ positions'.open)
        => /\ positions'.qty = positions.qty
           /\ positions'.entry_price = positions.entry_price]_vars

\* C23: every TradeResult of an exit has exit_value = qty * exit price,
\* entry_value = qty * entry price, fees = (entry_value + exit_value) * taker
\* rate, net_pnl = gross_pnl - fees and roi_pct = net_pnl / entry_value * 100
\* (0 when entry_value is 0); a long entered at 10 and closed at 10.50 for
\* quantity 5 gives 50, 52.50, 2.50, 0.056375 and 2.443625.
C23_TradeArithmetic ==
    \A k \in DOMAIN exit_log :
      LET e == exit_log[k]
          t == e.trade
      IN  /\ t.exit_value = e.cause.qty * e.cause.price
          /\ t.entry_value = e.cause.qty * e.pos.entry_price
          /\ t.fees = (t.entry_value + t.exit_value) * TakerNum
          /\ t.net_pnl = t.gross_pnl * TakerDen - t.fees
          /\ t.entry_value > 0
               => /\ t.roi_pct.d * 100 = t.entry_value * TakerDen
                  /\ t.roi_pct.q * t.roi_pct.d + t.roi_pct.r = t.net_pnl
                  /\ t.roi_pct.r \in 0..(t.roi_pct.d - 1)
          /\ t.entry_value = 0 => t.roi_pct.q = 0 /\ t.roi_pct.r = 0
          /\ (e.pos.side = "Buy" /\ e.pos.entry_price = 1000
              /\ e.cause.price = 1050 /\ e.cause.qty = 5)
               => /\ t.entry_value = 5000
                  /\ t.exit_value = 5250
                  /\ t.gross_pnl = 250
                  /\ t.fees = 563750
                  /\ t.net_pnl = 24436250
                  /\ t.roi_pct.q = 4

\* an exit with the figures of Scenario C, and one whose entry value is 0
C23_Witness ==
    /\ \E k \in DOMAIN exit_log :
         /\ exit_log[k].pos.side = "Buy"
         /\ exit_log[k].pos.entry_price = 1000
         /\ exit_log[k].cause.price = 1050
         /\ exit_log[k].cause.qty = 5
    /\ \E k \in DOMAIN exit_log : exit_log[k].trade.entry_value = 0

\* C24: the gross P&L of an exit is exit_value - entry_value for a Buy
\* position and entry_value - exit_value for a Sell position.
C24_GrossSignedBySide ==
    \A k \in DOMAIN exit_log :
      LET t == exit_log[k].trade
      IN  t.gross_pnl = IF exit_log[k].pos.side = "Buy"
                        THEN t.exit_value - t.entry_value
                        ELSE t.entry_value - t.exit_value

\* C25: the exit callback is invoked at most once per exit, and when it is
\* invoked the TradeResult is in the in-memory list and the journal write of
\* that exit has been attempted.
C25_CallbackAfterPersistence ==
    /\ \A k \in DOMAIN exit_log :
         LET e == exit_log[k]
         IN  /\ e.trade \in Range(completed_trades)
             /\ e.calls <= 1
             /\ e.calls = 1 => e.saved_at_call # "none" /\ e.listed_at_call
    /\ Len(callback_log) <= Len(exit_log)

\* an exit whose callback has been invoked
C25_Witness ==
    \E k \in DOMAIN exit_log :
      exit_log[k].calls = 1 /\ exit_log[k].saved_at_call = "ok"

\* the exit recorded at k has run to its end
ExitFinished(k) == k < Len(exit_log) \/ exit_pc = "idle"

\* C26: an exit whose journal write failed still has its TradeResult in the
\* in-memory list, its Position removed and its callback invoked, and every
\* later successful write contains its trade.
C26_SaveFailureContained ==
    \A k \in DOMAIN exit_log :
      LET e == exit_log[k]
      IN  e.saved = "failed"
            => /\ e.trade \in Range(completed_trades)
               /\ ExitFinished(k) => e.removed
               /\ (ExitFinished(k) /\ on_exit_callback) => e.calls = 1
               /\ \A m \in DOMAIN exit_log :
                    (m > k /\ exit_log[m].saved = "ok")
                      => JournalEntry(e.trade) \in Range(exit_log[m].written)

\* a failed write of one exit followed by a successful write of the next
C26_Witness ==
    /\ Len(exit_log) = 2
    /\ exit_log[1].saved = "failed"
    /\ exit_log[1].calls = 1
    /\ exit_log[2].saved = "ok"
    /\ journal.state = "list"
    /\ exit_pc = "idle"

\* the trades a journal holds, in file order
RECURSIVE TradesIn(_)
TradesIn(entries) ==
    IF entries = <<>> THEN <<>>
    ELSE IF Head(entries).keys = "TradeResult"
         THEN <<Head(entries).trade>> \o TradesIn(Tail(entries))
         ELSE TradesIn(Tail(entries))

IsPrefix(a, b) == Len(a) <= Len(b) /\ SubSeq(b, 1, Len(a)) = a

\* C27: once an exit has rewritten the journal, the trades that were in the
\* file when the process started are still its first trades, in order, also
\* when the load at startup failed or stopped part-way.
C27_JournalAppendOnly ==
    journal # journal0
      => IsPrefix(TradesIn(journal0.entries), TradesIn(journal.entries))

\* C28: a set_trailing_stop that fails returns false, and neither it nor the
\* marking that follows changes the added Position's quantity and entry
\* price, removes it, or sends an order.
C28_StopFailureKeepsPosition ==
    [][/\ (run_pc = "stop" /\ run_pc' = "mark" /\ stop'.resp # "ok")
          => /\ stop'.returned = "false"
             /\ positions' = positions
             /\ placed' = placed
       /\ (run_pc = "mark" /\ run_pc' = "idle" /\ stop.returned # "true")
          => /\ positions'.open = positions.open
             /\ positions'.qty = positions.qty
             /\ positions'.entry_price = positions.entry_price
             /\ placed' = placed]_vars

\* the iteration ended after a failed set_trailing_stop, position in place
C28_Witness ==
    /\ run_pc = "idle"
    /\ stop.resp \in {"rejected", "raise"}
    /\ stop.returned = "false"
    /\ positions.open
    /\ positions.qty = result.filled_qty

\* C29: the order about to be placed, the n-th of the snipe counting the
\* orders sent from 0, uses the step of index min(n div R, k).
C29_StepFromOrdersSent ==
    pc = "place"
      => LET n == loc.orders_sent \div cfg.repeat_per_step
             k == Len(cfg.steps) - 1
         IN  loc.slippage = cfg.steps[(IF n < k THEN n ELSE k) + 1]

\* C30: an execution fill closes the tracked Position only when its side is
\* opposite to the Position's side.
C30_CounterSideOnly ==
    \A k \in DOMAIN exit_log :
      exit_log[k].cause.kind = "execution"
        => exit_log[k].cause.side # exit_log[k].pos.side

-----------------------------------------------------------------------------
(* Properties settled last *)

\* C40: in every reachable state, for any sequence of open, authentication
\* acknowledgment, close and reconnect events, private_authenticated implies
\* private_connected.
C40_AuthenticatedImpliesConnected ==
    private_authenticated => connected["private"]

\* the final cumulative executed quantity of the orders placed so far
RECURSIVE SumCum(_)
SumCum(orders) ==
    IF orders = <<>> THEN 0 ELSE Head(orders).cum + SumCum(Tail(orders))

\* C34: within one snipe no fill is counted twice: however many updates the
\* exchange pushes for an order, the filled quantity is at most the sum of
\* the orders' cumulative executed quantities.
C34_NoFillCountedTwice == loc.filled_qty <= SumCum(placed)

\* C35: within one snipe no fill is lost: at a normal return every fill
\* confirmation of this snipe that reached the accumulator is among the
\* fills the result counts.
C35_NoFillLost ==
    (pc = "done" /\ result.error = "")
      => \A k \in DOMAIN order_fills :
           (order_fills[k].qty > 0 /\ order_fills[k].avg_price > 0)
             => order_fills[k] \in Range(result.fills)

\* C36: on every return path, the one through the outer except included, the
\* result's filled_qty and filled_value are the sums over its fill list.
C36_ResultMatchesFills ==
    pc = "done"
      => /\ result.filled_qty = SumQty(result.fills)
         /\ result.filled_value = SumValue(result.fills)

\* C37: the TradeResult created on exit records the closed Position's own
\* quantity and entry notional, also when the exit event reports another
\* executed quantity.
C37_TradeRecordsPositionQty ==
    \A k \in DOMAIN exit_log :
        /\ exit_log[k].trade.qty = exit_log[k].pos.qty
        /\ exit_log[k].trade.entry_value
             = exit_log[k].pos.qty * exit_log[k].pos.entry_price

\* C38: a Position's trailing-armed flag is true only if the exchange
\* accepted the trailing stop requested for it.
C38_ArmedOnlyIfAccepted ==
    (positions.open /\ positions.trailing_set) => stop.returned = "true"

\* C39: in the orchestrator a Position is added only after executeSnipe
\* returned success, the add comes before the trailing-stop request, a symbol
\* with an open Position is never sniped, and in every state
\* snipes_successful <= snipes_attempted.
C39_OrchestratorOrder ==
    /\ snipes.successful <= snipes.attempted
    /\ run_pc = "snipe" => ~positions.open
    /\ run_pc = "add" => result.success
    /\ adds = snipes.successful - (IF run_pc = "add" THEN 1 ELSE 0)
    /\ stop.requests = adds - (IF run_pc = "stop" THEN 1 ELSE 0)

\* a snipe went the whole way (counted, added, stop requested, marked) and
\* its Position is open when the run loop looks at the next listing
C39_Witness ==
    /\ snipes = [attempted |-> 1, successful |-> 1]
    /\ adds = 1
    /\ stop.requests = 1
    /\ run_pc = "idle"
    /\ positions.open
    /\ positions.trailing_set
    /\ ENABLED RunNextListing

\* C31: each open Position produces exactly one TradeResult: the first exit
\* event (execution fill or filled trailing-stop update) creates it and
\* removes the Position; while no Position is open, no event adds a
\* TradeResult.
C31_OneTradePerPosition ==
    /\ [](/\ adds = Len(exit_log)
                  + (IF positions.open /\ exit_pc \notin {"save", "remove"}
                     THEN 1 ELSE 0)
          /\ Len(completed_trades) = Len(exit_log))
    /\ [][~positions.open
            => /\ completed_trades' = completed_trades
               /\ Len(exit_log') = Len(exit_log)]_vars

\* one Position was added and closed by an execution fill, and the delivery
\* thread is ready for the trailing-stop update of the same symbol
C31_Witness ==
    /\ adds = 1
    /\ Len(exit_log) = 1
    /\ exit_log[1].cause.kind = "execution"
    /\ exit_log[1].removed
    /\ ~positions.open
    /\ exit_pc = "idle"
    /\ ENABLED OnTrailingFrame

\* C32: a frame that does not decode, or whose handler raises, is logged
\* and dropped without stopping the stream: the delivery loop keeps running,
\* every frame still waiting can be handled, and the frames of one stream
\* are handled one at a time in arrival order, each decodable one passed to
\* its handler.
C32_ErrorsDoNotStopDelivery ==
    \A s \in Streams :
        LET d == delivery[s]
        IN  /\ d.loop = "running"
            /\ d.inbox # <<>> => ENABLED OnMessage
            /\ \A i \in DOMAIN d.handled :
                 /\ d.handled[i].n = i
                 /\ Decodes(d.handled[i].frame)
                      <=> Len(d.handled[i].handlers) = 1
                 /\ d.handled[i].logged
                      <=> (~Decodes(d.handled[i].frame)
                           \/ d.handled[i].frame.raises)
            /\ \A j \in DOMAIN d.inbox : d.inbox[j].n = Len(d.handled) + j

\* on one stream an undecodable frame and a frame whose handler raised were
\* dropped, and the frame after them was dispatched
C32_Witness ==
    \E s \in Streams :
        LET h == delivery[s].handled
        IN  /\ Len(h) = 3
            /\ ~Decodes(h[1].frame) /\ h[1].logged
            /\ h[2].frame.raises /\ h[2].logged /\ Len(h[2].handlers) = 1
            /\ Decodes(h[3].frame) /\ ~h[3].logged /\ Len(h[3].handlers) = 1

\* C33: discovery returns a symbol as new at most once, never returns a
\* symbol that was present at initialization or in an earlier scan, and
\* returns only instruments that have already launched and whose age since
\* launch is below the configured maximum.
C33_NewOnceAndLaunched ==
    \A i \in DOMAIN scanner.scans :
      \A p \in scanner.scans[i].returned :
        /\ p.symbol \notin scanner.initial
        /\ \A j \in 1..(i - 1) :
             /\ p.symbol \notin scanner.scans[j].listed
             /\ \A q \in scanner.scans[j].returned : q.symbol # p.symbol
        /\ p.age_sec >= 0
        /\ p.age_sec < MaxLaunchAgeSec

====
